---- MODULE Spec2Model ----
(***************************************************************************)
(* A model of the lz4ultra block compressor (match finder, optimal parser, *)
(* peephole command-count reducer, block emitter), of the block            *)
(* decompressor, and of the frame layer around them.                       *)
(*                                                                         *)
(* C arrays are functions over 0..n-1.  The 64-bit words of intervals[]    *)
(* and pos_data[] are pairs <<lcp, pos>>: lcp is the field selected by     *)
(* LCP_MASK, pos the field selected by POS_MASK, and the unsigned          *)
(* comparison of two words is the lexicographic comparison of the pairs.   *)
(***************************************************************************)
EXTENDS Integers, Sequences, FiniteSets, TLC

(***************************************************************************)
(* Bounds of the model                                                     *)
(***************************************************************************)
MaxWindow == 30          \* longest patterned window (history + block) compressed
MaxAfter == 15           \* most bytes after the repeat of a repeat window
MaxTail == 3             \* steps by which a run of equal bytes exceeds LCP_MAX
MaxHistory == 2          \* longest history placed in front of a block
MaxBlockLen == 3         \* longest block built from every choice of bytes
MaxMixed == 34           \* longest window over two bytes compressed
MaxArgs == 4             \* most arguments on a command line
MaxLongMatch == 1039     \* longest match handed to the parser one position at a time
MaxStreamBlocks == 3     \* most turns of the loop of a compression of a stream
MaxVarlen == 526
MaxBoth == 16
MaxInmemBlocks == 3      \* most blocks of an input followed through a compression loop

(***************************************************************************)
(* Program constants                                                       *)
(***************************************************************************)
MIN_MATCH_SIZE == 4
LITERALS_RUN_LEN == 15
MATCH_RUN_LEN == 15
MIN_OFFSET == 1
MAX_OFFSET == 65535
LCP_MAX == 16383
NMATCHES_PER_OFFSET == 8
LEAVE_ALONE_MATCH_SIZE == 1000
\* three bytes more than the format asks for
LATE_LAST_MATCH_OFFSET == 12 + 3
LAST_MATCH_OFFSET == 12
\* one byte fewer than the format asks for
SHORT_LAST_LITERALS == 5 - 1
LAST_LITERALS == 5
MODESWITCH_PENALTY == 1


\* a C array: the function f stored element by element, so that reading an
\* element does not compute it again
Array(f) == f @@ <<>>

Min(a, b) == IF a < b THEN a ELSE b
\* number of elements of a C array held as a function over 0..(n - 1)
SizeOf(f) == Cardinality(DOMAIN f)
Max(a, b) == IF a > b THEN a ELSE b

\* C integer division (truncation toward zero), b > 0
cdiv(a, b) == IF a >= 0 THEN a \div b ELSE -((-a) \div b)

\* unsigned comparison "x >= c" of an unsigned int that was stored from the
\* int x (x = -1 is 0xFFFFFFFF), against a constant c >= 0
GEu(x, c) == x < 0 \/ x >= c

(***************************************************************************)
(* Cost functions and variable-length writers (shrink_block.c)             *)
(***************************************************************************)
lz4ultra_get_literals_varlen_size(nLength) ==
    cdiv(nLength - LITERALS_RUN_LEN + 255, 255) * 8

\* the size rounded up from the bytes 255 alone
CeilMatchVarlenSize(nLength) ==
    cdiv(nLength - MATCH_RUN_LEN + 254, 255) * 8
lz4ultra_get_match_varlen_size(nLength) ==
    cdiv(nLength - MATCH_RUN_LEN + 255, 255) * 8

\* no last byte for a rest of 0
WriteVarlenNoRest(out, nLength) ==
    out \o [j \in 1..(nLength \div 255) |-> 255]
        \o (IF nLength > 0 /\ nLength % 255 = 0 THEN <<>> ELSE <<nLength % 255>>)
\* "while (nLength >= 255) { out = 255; nLength -= 255; } out = nLength;":
\* one byte 255 for every 255 taken off, then the rest
WriteVarlenLoop(out, nLength) ==
    out \o [j \in 1..(nLength \div 255) |-> 255] \o <<nLength % 255>>

\* the extra length bytes of a count from which the 15 of the token were
\* not taken off
WriteWholeLength(out, nLength) ==
    IF nLength >= LITERALS_RUN_LEN THEN WriteVarlenLoop(out, nLength) ELSE out

\* appends the extra length bytes to the output written so far
lz4ultra_write_literals_varlen(out, nLength) ==
    IF nLength >= LITERALS_RUN_LEN
    THEN WriteVarlenLoop(out, nLength - LITERALS_RUN_LEN)
    ELSE out

lz4ultra_write_match_varlen(out, nLength) ==
    IF nLength >= MATCH_RUN_LEN
    THEN WriteVarlenLoop(out, nLength - MATCH_RUN_LEN)
    ELSE out

(***************************************************************************)
(* Suffix array, LCP and LCP-interval index (lz4ultra_build_suffix_array)  *)
(***************************************************************************)
Word(lcp, pos) == <<lcp, pos>>
LcpOf(w) == w[1]
PosOf(w) == w[2]
WordGT(a, b) == a[1] > b[1] \/ (a[1] = b[1] /\ a[2] > b[2])
ZeroWord == <<0, 0>>

RECURSIVE SuffixLess(_, _, _, _)
\* suffix a of W[0..N) sorts before suffix b
SuffixLess(W, N, a, b) ==
    IF a = b THEN FALSE
    ELSE IF a >= N THEN TRUE
    ELSE IF b >= N THEN FALSE
    ELSE IF W[a] # W[b] THEN W[a] < W[b]
    ELSE SuffixLess(W, N, a + 1, b + 1)

\* the sorted order of the suffixes, as divsufsort_build_array returns it
SuffixArray(W, N) ==
    LET rank == Array([i \in 0..(N - 1) |->
                         Cardinality({j \in 0..(N - 1) : SuffixLess(W, N, j, i)})])
    IN Array([r \in 0..(N - 1) |-> CHOOSE i \in 0..(N - 1) : rank[i] = r])

RECURSIVE ExtendLen(_, _, _, _, _)
ExtendLen(W, a, b, nCurLen, nMaxLen) ==
    IF nCurLen < nMaxLen /\ W[a + nCurLen] = W[b + nCurLen]
    THEN ExtendLen(W, a, b, nCurLen + 1, nMaxLen)
    ELSE nCurLen

RECURSIVE PLCPLoop(_, _, _, _)
\* the permuted LCP, computed position by position; s holds the loop's
\* locals i and nCurLen, and PLCP
PLCPLoop(W, N, Phi, s) ==
    IF s.i >= N THEN s.PLCP
    ELSE IF Phi[s.i] = -1
         THEN PLCPLoop(W, N, Phi, [s EXCEPT !.i = @ + 1, !.PLCP[s.i] = 0])
         ELSE LET nMaxLen == IF s.i > Phi[s.i] THEN N - s.i ELSE N - Phi[s.i]
                  len == ExtendLen(W, s.i, Phi[s.i], s.nCurLen, nMaxLen)
              IN PLCPLoop(W, N, Phi,
                          [i |-> s.i + 1,
                           nCurLen |-> IF len > 0 THEN len - 1 ELSE len,
                           PLCP |-> [s.PLCP EXCEPT ![s.i] = len]])

\* intervals[] after the rotation of the PLCP into (SA | LCP) words
SAandLCP(W, N) ==
    LET SA == SuffixArray(W, N)
        Phi == Array([p \in 0..(N - 1) |->
                        LET r == CHOOSE r \in 0..(N - 1) : SA[r] = p
                        IN IF r = 0 THEN -1 ELSE SA[r - 1]])
        PLCP == PLCPLoop(W, N, Phi, [i |-> 0, nCurLen |-> 0,
                                     PLCP |-> Array([p \in 0..(N - 1) |-> 0])])
    IN Array([i \in 0..(N - 1) |->
                IF i >= 1 /\ i < N - 1
                THEN LET nIndex == SA[i]
                         nLen0 == PLCP[nIndex]
                         nLen1 == IF nLen0 < MIN_MATCH_SIZE THEN 0 ELSE nLen0
                         nLen == IF nLen1 > LCP_MAX THEN LCP_MAX ELSE nLen1
                     IN Word(nLen, nIndex)
                ELSE Word(0, SA[i])])

RECURSIVE CloseIntervals(_, _)
\* the loop that closes the deepest open intervals; b holds intervals,
\* the open-interval stack (top is the last element) and next_interval_idx
CloseIntervals(b, next_lcp) ==
    LET closed_interval_idx == PosOf(b.stack[Len(b.stack)])
        stack1 == SubSeq(b.stack, 1, Len(b.stack) - 1)
        top == stack1[Len(stack1)]
        superinterval_lcp == LcpOf(top)
    IN IF next_lcp = superinterval_lcp
       THEN [b EXCEPT !.stack = stack1,
                      !.intervals[closed_interval_idx] = top]
       ELSE IF next_lcp > superinterval_lcp
       THEN LET new == Word(next_lcp, b.next_interval_idx)
            IN [b EXCEPT !.stack = Append(stack1, new),
                         !.next_interval_idx = b.next_interval_idx + 1,
                         !.intervals[closed_interval_idx] = new]
       ELSE CloseIntervals([b EXCEPT !.stack = stack1,
                                     !.intervals[closed_interval_idx] = top],
                           next_lcp)

RECURSIVE BuildIntervals(_, _)
\* "for (int r = 1; r < nInWindowSize; r++)"; b.r is the loop counter
BuildIntervals(b, N) ==
    IF b.r >= N THEN b
    ELSE LET next_pos == PosOf(b.intervals[b.r])
             next_lcp == LcpOf(b.intervals[b.r])
             top == b.stack[Len(b.stack)]
             top_lcp == LcpOf(top)
             b1 == IF next_lcp = top_lcp
                   THEN [b EXCEPT !.pos_data[b.prev_pos] = top]
                   ELSE IF next_lcp > top_lcp
                   THEN LET new == Word(next_lcp, b.next_interval_idx)
                        IN [b EXCEPT !.stack = Append(b.stack, new),
                                     !.next_interval_idx = b.next_interval_idx + 1,
                                     !.pos_data[b.prev_pos] = new]
                   ELSE CloseIntervals([b EXCEPT !.pos_data[b.prev_pos] = top],
                                       next_lcp)
         IN BuildIntervals([b1 EXCEPT !.prev_pos = next_pos, !.r = @ + 1], N)

RECURSIVE CloseRemaining(_, _)
CloseRemaining(intervals, stack) ==
    IF Len(stack) <= 1 THEN intervals
    ELSE CloseRemaining(
            [intervals EXCEPT ![PosOf(stack[Len(stack)])] = stack[Len(stack) - 1]],
            SubSeq(stack, 1, Len(stack) - 1))

\* the index over the window W[0..N): [intervals, pos_data]
lz4ultra_build_suffix_array(W, N) ==
    LET sal == SAandLCP(W, N)
        b0 == [intervals |-> [sal EXCEPT ![0] = ZeroWord],
               pos_data |-> Array([p \in 0..(N - 1) |-> ZeroWord]),
               stack |-> <<ZeroWord>>,
               next_interval_idx |-> 1,
               prev_pos |-> PosOf(sal[0]),
               r |-> 1]
        b == BuildIntervals(b0, N)
    IN [intervals |-> CloseRemaining(b.intervals, b.stack),
        pos_data |-> [b.pos_data EXCEPT ![b.prev_pos] = b.stack[Len(b.stack)]]]

(***************************************************************************)
(* Match finder (lz4ultra_find_matches_at, lz4ultra_find_all_matches)      *)
(***************************************************************************)
RECURSIVE AscendUnvisited(_, _, _)
\* "while ((super_ref = intervals[ref & POS_MASK]) & LCP_MASK)": links the
\* unvisited intervals to nOffset; returns [intervals, ref, super_ref]
AscendUnvisited(intervals, ref, nOffset) ==
    LET super_ref == intervals[PosOf(ref)]
    IN IF LcpOf(super_ref) # 0
       THEN AscendUnvisited([intervals EXCEPT ![PosOf(ref)] = Word(0, nOffset)],
                            super_ref, nOffset)
       ELSE [intervals |-> intervals, ref |-> ref, super_ref |-> super_ref]

RECURSIVE DescendPos(_, _, _, _)
\* "while ((super_ref = pos_data[match_pos]) > ref) match_pos = intervals[..]"
DescendPos(intervals, pos_data, ref, match_pos) ==
    LET super_ref == pos_data[match_pos]
    IN IF WordGT(super_ref, ref)
       THEN DescendPos(intervals, pos_data, ref, PosOf(intervals[PosOf(super_ref)]))
       ELSE [match_pos |-> match_pos, super_ref |-> super_ref]

\* the two positions added: not a distance back from nOffset
PositionSum(nOffset, match_pos) == nOffset + match_pos

\* "nMatchOffset = (int)(nOffset - match_pos)"
MatchOffset(nOffset, match_pos) == nOffset - match_pos

RECURSIVE AscendIndirect(_, _, _, _, _, _)
\* the for (;;) loop of lz4ultra_find_matches_at; x holds intervals, pos_data
\* and the matches stored so far
AscendIndirect(x, ref, match_pos0, nOffset, nMaxMatches, dummy) ==
    LET d == DescendPos(x.intervals, x.pos_data, ref, match_pos0)
        match_pos == d.match_pos
        super_ref == d.super_ref
        nMatchOffset == MatchOffset(nOffset, match_pos)
        x1 == [intervals |-> [x.intervals EXCEPT ![PosOf(ref)] = Word(0, nOffset)],
               pos_data |-> [x.pos_data EXCEPT ![match_pos] = ref],
               matches |-> IF Len(x.matches) < nMaxMatches /\ nMatchOffset <= MAX_OFFSET
                           THEN Append(x.matches, [length |-> LcpOf(ref),
                                                   offset |-> nMatchOffset])
                           ELSE x.matches]
    IN IF super_ref = ZeroWord THEN x1
       ELSE AscendIndirect(x1, super_ref, PosOf(x1.intervals[PosOf(super_ref)]),
                           nOffset, nMaxMatches, dummy)

\* returns [intervals, pos_data, matches]
lz4ultra_find_matches_at(intervals, pos_data, nOffset, nMaxMatches) ==
    LET ref0 == pos_data[nOffset]
        pos1 == [pos_data EXCEPT ![nOffset] = ZeroWord]
        a == AscendUnvisited(intervals, ref0, nOffset)
    IN IF a.super_ref = ZeroWord
       THEN [intervals |-> IF a.ref # ZeroWord
                           THEN [a.intervals EXCEPT ![PosOf(a.ref)] = Word(0, nOffset)]
                           ELSE a.intervals,
             pos_data |-> pos1,
             matches |-> <<>>]
       ELSE AscendIndirect([intervals |-> a.intervals, pos_data |-> pos1,
                            matches |-> <<>>],
                           a.ref, PosOf(a.super_ref), nOffset, nMaxMatches, 0)

RECURSIVE SkipLoop(_, _)
\* x holds intervals, pos_data and the loop counter i
SkipLoop(x, nEndOffset) ==
    IF x.i >= nEndOffset THEN x
    ELSE LET f == lz4ultra_find_matches_at(x.intervals, x.pos_data, x.i, 0)
         IN SkipLoop([intervals |-> f.intervals, pos_data |-> f.pos_data,
                      i |-> x.i + 1], nEndOffset)

\* idx is [intervals, pos_data]
lz4ultra_skip_matches(idx, nStartOffset, nEndOffset) ==
    LET x == SkipLoop([intervals |-> idx.intervals, pos_data |-> idx.pos_data,
                       i |-> nStartOffset], nEndOffset)
    IN [intervals |-> x.intervals, pos_data |-> x.pos_data]

NoMatch == [length |-> 0, offset |-> 0]

\* the first match returned, its length as the index holds it
UnclampedMatch(matches, i, nEndOffset) ==
    IF Len(matches) <= 0 \/ i > nEndOffset - LAST_MATCH_OFFSET
    THEN NoMatch
    ELSE [length |-> matches[1].length, offset |-> matches[1].offset]
\* the entry recorded for position i: the first match returned (slot 0)
RecordedMatch(matches, i, nEndOffset) ==
    IF Len(matches) <= 0 \/ i > nEndOffset - LAST_MATCH_OFFSET
    THEN NoMatch
    ELSE LET nMaxLen == Max((nEndOffset - LAST_LITERALS) - i, 0)
         IN [length |-> IF matches[1].length > nMaxLen THEN nMaxLen
                        ELSE matches[1].length,
             offset |-> matches[1].offset]

RECURSIVE FindAllLoop(_, _)
\* x holds intervals, pos_data, match and the loop counter i
FindAllLoop(x, nEndOffset) ==
    IF x.i >= nEndOffset THEN x
    ELSE LET f == lz4ultra_find_matches_at(x.intervals, x.pos_data, x.i,
                                           NMATCHES_PER_OFFSET)
         IN FindAllLoop([intervals |-> f.intervals, pos_data |-> f.pos_data,
                         match |-> [x.match EXCEPT
                                       ![x.i] = RecordedMatch(f.matches, x.i, nEndOffset)],
                         i |-> x.i + 1], nEndOffset)

\* match[] over the window after the finder ran on [nStartOffset, nEndOffset)
lz4ultra_find_all_matches(idx, nStartOffset, nEndOffset) ==
    FindAllLoop([intervals |-> idx.intervals, pos_data |-> idx.pos_data,
                 match |-> Array([p \in 0..(nEndOffset - 1) |-> NoMatch]),
                 i |-> nStartOffset], nEndOffset).match

\* the match finding part of lz4ultra_compressor_shrink_block
FoundMatches(W, nPreviousBlockSize, nInDataSize) ==
    LET N == nPreviousBlockSize + nInDataSize
        idx0 == lz4ultra_build_suffix_array(W, N)
        idx == IF nPreviousBlockSize # 0
               THEN lz4ultra_skip_matches(idx0, 0, nPreviousBlockSize)
               ELSE idx0
    IN lz4ultra_find_all_matches(idx, nPreviousBlockSize, N)


(***************************************************************************)
(* Optimal parser (lz4ultra_optimize_matches_lz4)                          *)
(***************************************************************************)
\* "if (nBestCost > nCurCost || (nBestCost == nCurCost && nBestScore > nCurScore))"
TakeIfBetter(best, nCurCost, nCurScore, k, offset) ==
    IF best.cost > nCurCost \/ (best.cost = nCurCost /\ best.score > nCurScore)
    THEN [cost |-> nCurCost, score |-> nCurScore, len |-> k, off |-> offset]
    ELSE best

\* one trial of the match at i cut to k bytes; bVarlen says whether the loop
\* the trial belongs to charges the extra match length bytes
TryMatchLen(st, best, i, k, offset, nExtraMatchScore, bVarlen) ==
    LET nCurCost == 8 + 16
                    + (IF bVarlen THEN lz4ultra_get_match_varlen_size(k - MIN_MATCH_SIZE)
                       ELSE 0)
                    + st.cost[i + k]
                    + (IF GEu(st.match[i + k].length, MIN_MATCH_SIZE)
                       THEN MODESWITCH_PENALTY ELSE 0)
        nCurScore == nExtraMatchScore + st.score[i + k]
    IN TakeIfBetter(best, nCurCost, nCurScore, k, offset)

RECURSIVE TryLongLens(_, _, _, _, _)
\* "for (k = nMatchLen; k >= (MATCH_RUN_LEN + MIN_MATCH_SIZE); k--)";
\* t holds the best choice so far and the loop counter k
TryLongLens(st, t, i, offset, nExtraMatchScore) ==
    IF t.k >= MATCH_RUN_LEN + MIN_MATCH_SIZE
    THEN TryLongLens(st,
             [best |-> TryMatchLen(st, t.best, i, t.k, offset, nExtraMatchScore, TRUE),
              k |-> t.k - 1],
             i, offset, nExtraMatchScore)
    ELSE t

RECURSIVE TryShortLens(_, _, _, _, _)
\* "for (;  k >= MIN_MATCH_SIZE; k--)"
TryShortLens(st, t, i, offset, nExtraMatchScore) ==
    IF t.k >= MIN_MATCH_SIZE
    THEN TryShortLens(st,
             [best |-> TryMatchLen(st, t.best, i, t.k, offset, nExtraMatchScore, FALSE),
              k |-> t.k - 1],
             i, offset, nExtraMatchScore)
    ELSE t.best

\* the length the parser starts its trials from, in the branch for matches
\* shorter than LEAVE_ALONE_MATCH_SIZE
WholeLen(nMatchLen, bFavorRatio) == nMatchLen
FastPathLen(nMatchLen, bFavorRatio) ==
    IF ~bFavorRatio
       /\ nMatchLen > (MATCH_RUN_LEN + MIN_MATCH_SIZE - 1)
       /\ nMatchLen <= (2 * (MATCH_RUN_LEN + MIN_MATCH_SIZE - 1))
    THEN MATCH_RUN_LEN + MIN_MATCH_SIZE - 1
    ELSE nMatchLen

\* the body of the parser's loop for position i
OptimizeAt(st, nEndOffset, bFavorRatio) ==
    LET i == st.i
        nExtraMatchScore == IF bFavorRatio THEN 1 ELSE 5
        nLiteralsLen == st.nLastLiteralsOffset - i
        litCost == 8 + st.cost[i + 1]
                   + (IF nLiteralsLen >= LITERALS_RUN_LEN
                         /\ ((nLiteralsLen - LITERALS_RUN_LEN) % 255) = 0
                      THEN 8 ELSE 0)
                   + (IF GEu(st.match[i + 1].length, MIN_MATCH_SIZE)
                      THEN MODESWITCH_PENALTY ELSE 0)
        best0 == [cost |-> litCost, score |-> 1 + st.score[i + 1], len |-> 0, off |-> 0]
        pMatch == st.match[i]
        nClamped == IF (i + pMatch.length) > (nEndOffset - LAST_LITERALS)
                    THEN nEndOffset - LAST_LITERALS - i
                    ELSE pMatch.length
        best == IF GEu(pMatch.length, MIN_MATCH_SIZE)
                THEN IF GEu(pMatch.length, LEAVE_ALONE_MATCH_SIZE)
                     THEN TryMatchLen(st, best0, i, nClamped, pMatch.offset,
                                      nExtraMatchScore, TRUE)
                     ELSE TryShortLens(st,
                              TryLongLens(st,
                                  [best |-> best0,
                                   k |-> FastPathLen(nClamped, bFavorRatio)],
                                  i, pMatch.offset, nExtraMatchScore),
                              i, pMatch.offset, nExtraMatchScore)
                ELSE best0
    IN [cost |-> [st.cost EXCEPT ![i] = best.cost],
        score |-> [st.score EXCEPT ![i] = best.score],
        match |-> [st.match EXCEPT ![i] = [length |-> best.len, offset |-> best.off]],
        nLastLiteralsOffset |-> IF best.len >= MIN_MATCH_SIZE THEN i
                                ELSE st.nLastLiteralsOffset,
        i |-> i - 1]

RECURSIVE OptimizeLoop(_, _, _, _)
\* "for (i = nEndOffset - 2; i != (nStartOffset - 1); i--)"; st.i is i
OptimizeLoop(st, nStartOffset, nEndOffset, bFavorRatio) ==
    IF st.i = nStartOffset - 1 THEN st
    ELSE OptimizeLoop(OptimizeAt(st, nEndOffset, bFavorRatio),
                      nStartOffset, nEndOffset, bFavorRatio)

\* the parser's state when its loop ends: cost[], score[], match[]
OptimizeState(match, nStartOffset, nEndOffset, bFavorRatio) ==
    OptimizeLoop([cost |-> Array([p \in 0..(nEndOffset - 1) |->
                                     IF p = nEndOffset - 1 THEN 8 ELSE 0]),
                  score |-> Array([p \in 0..(nEndOffset - 1) |-> 0]),
                  match |-> match,
                  nLastLiteralsOffset |-> nEndOffset,
                  i |-> nEndOffset - 2],
                 nStartOffset, nEndOffset, bFavorRatio)

\* match[] as the parser leaves it
lz4ultra_optimize_matches_lz4(match, nStartOffset, nEndOffset, bFavorRatio) ==
    OptimizeState(match, nStartOffset, nEndOffset, bFavorRatio).match

\* The parser's loop body with the trials of a long match run 32 lengths
\* at a time, in the order of the two loops over k.
RECURSIVE TryLensDownTo(_, _, _, _, _, _)
TryLensDownTo(st, t, i, offset, nExtraMatchScore, nLow) ==
    IF t.k >= nLow
    THEN TryLensDownTo(st,
             [best |-> TryMatchLen(st, t.best, i, t.k, offset, nExtraMatchScore,
                                   t.k >= MATCH_RUN_LEN + MIN_MATCH_SIZE),
              k |-> t.k - 1],
             i, offset, nExtraMatchScore, nLow)
    ELSE t
RECURSIVE TryAllLens(_, _, _, _, _)
TryAllLens(st, t, i, offset, nExtraMatchScore) ==
    IF t.k >= MIN_MATCH_SIZE
    THEN TryAllLens(st,
             TryLensDownTo(st, t, i, offset, nExtraMatchScore,
                           Max(MIN_MATCH_SIZE, t.k - 31)),
             i, offset, nExtraMatchScore)
    ELSE t.best

\* the body of the parser's loop for position i; bLeaveAlone says whether
\* a match of LEAVE_ALONE_MATCH_SIZE bytes or more is tried at its full
\* length only, as the code does, or at every length, like a shorter one
OptimizeLongAt(st, nEndOffset, bFavorRatio, bLeaveAlone) ==
    LET i == st.i
        nExtraMatchScore == IF bFavorRatio THEN 1 ELSE 5
        nLiteralsLen == st.nLastLiteralsOffset - i
        litCost == 8 + st.cost[i + 1]
                   + (IF nLiteralsLen >= LITERALS_RUN_LEN
                         /\ ((nLiteralsLen - LITERALS_RUN_LEN) % 255) = 0
                      THEN 8 ELSE 0)
                   + (IF GEu(st.match[i + 1].length, MIN_MATCH_SIZE)
                      THEN MODESWITCH_PENALTY ELSE 0)
        best0 == [cost |-> litCost, score |-> 1 + st.score[i + 1], len |-> 0, off |-> 0]
        pMatch == st.match[i]
        nClamped == IF (i + pMatch.length) > (nEndOffset - LAST_LITERALS)
                    THEN nEndOffset - LAST_LITERALS - i
                    ELSE pMatch.length
        best == IF GEu(pMatch.length, MIN_MATCH_SIZE)
                THEN IF bLeaveAlone /\ GEu(pMatch.length, LEAVE_ALONE_MATCH_SIZE)
                     THEN TryMatchLen(st, best0, i, nClamped, pMatch.offset,
                                      nExtraMatchScore, TRUE)
                     ELSE TryAllLens(st,
                              [best |-> best0, k |-> FastPathLen(nClamped, bFavorRatio)],
                              i, pMatch.offset, nExtraMatchScore)
                ELSE best0
    IN [cost |-> [st.cost EXCEPT ![i] = best.cost],
        score |-> [st.score EXCEPT ![i] = best.score],
        match |-> [st.match EXCEPT ![i] = [length |-> best.len, offset |-> best.off]],
        nLastLiteralsOffset |-> IF best.len >= MIN_MATCH_SIZE THEN i
                                ELSE st.nLastLiteralsOffset,
        i |-> i - 1]

RECURSIVE OptimizeLongLoop(_, _, _, _, _, _)
\* "for (i = nEndOffset - 2; i != (nStartOffset - 1); i--)", n turns of it
\* at most, from a position inside the block
OptimizeLongLoop(st, nStartOffset, nEndOffset, bFavorRatio, bLeaveAlone, n) ==
    LET next == OptimizeLongAt(st, nEndOffset, bFavorRatio, bLeaveAlone)
    IN IF n = 1 \/ next.i = nStartOffset - 1 THEN next
       ELSE OptimizeLongLoop(next, nStartOffset, nEndOffset, bFavorRatio, bLeaveAlone, n - 1)

RECURSIVE OptimizeChunks(_, _, _, _)
\* the same loop down to nStartOffset, sixteen turns at a time
OptimizeChunks(st, nStartOffset, nEndOffset, bFavorRatio) ==
    LET next == OptimizeLongLoop(st, nStartOffset, nEndOffset, bFavorRatio, TRUE, 16)
    IN IF next.i = nStartOffset - 1 THEN next
       ELSE OptimizeChunks(next, nStartOffset, nEndOffset, bFavorRatio)

\* cost[], score[] and match[] on entry to the parser's loop
OptimizeEntry(found, nStartOffset, nEndOffset) ==
    [cost |-> Array([p \in nStartOffset..(nEndOffset - 1) |->
                        IF p = nEndOffset - 1 THEN 8 ELSE 0]),
     score |-> Array([p \in nStartOffset..(nEndOffset - 1) |-> 0]),
     match |-> found,
     nLastLiteralsOffset |-> nEndOffset,
     i |-> nEndOffset - 2]

\* match[] when the parser's loop has come down from nEndOffset - 2 to
\* nStopOffset: the matches before nStopOffset are as the finder left them
OptimizeDownTo(match, nStopOffset, nEndOffset, bFavorRatio) ==
    LET last == Array([p \in nStopOffset..(nEndOffset - 1) |-> match[p]])
        st == OptimizeChunks(OptimizeEntry(last, nStopOffset, nEndOffset),
                             nStopOffset, nEndOffset, bFavorRatio)
    IN Array([p \in DOMAIN match |-> IF p >= nStopOffset THEN st.match[p] ELSE match[p]])

(***************************************************************************)
(* Peephole command-count reducer (lz4ultra_optimize_command_count_lz4)    *)
(***************************************************************************)
RECURSIVE CountNextLiterals(_, _, _, _)
\* the do/while that counts the literals after the match
CountNextLiterals(match, nCurIndex, nNextNumLiterals, nEndOffset) ==
    IF (nCurIndex + 1) < nEndOffset
       /\ ~GEu(match[nCurIndex + 1].length, MIN_MATCH_SIZE)
    THEN CountNextLiterals(match, nCurIndex + 1, nNextNumLiterals + 1, nEndOffset)
    ELSE nNextNumLiterals + 1

\* a test that demotes every short match the literals follow, whatever the
\* sizes are
ReduceBeforeLiterals(match, i, nMatchLen, nNumLiterals, nEndOffset) ==
    /\ nMatchLen <= 19
    /\ (i + nMatchLen) < nEndOffset
    /\ ~GEu(match[i + nMatchLen].length, MIN_MATCH_SIZE)

\* nReduce for the match of nMatchLen bytes at i
ShouldReduce(match, i, nMatchLen, nNumLiterals, nEndOffset) ==
    /\ nMatchLen <= 19
    /\ (i + nMatchLen) < nEndOffset
    /\ LET nEncodedMatchLen == nMatchLen - MIN_MATCH_SIZE
           nCommandSize == 8 + lz4ultra_get_literals_varlen_size(nNumLiterals) + 16
                           + lz4ultra_get_match_varlen_size(nEncodedMatchLen)
       IN IF GEu(match[i + nMatchLen].length, MIN_MATCH_SIZE)
          THEN nCommandSize >= ((nMatchLen * 8)
                                + lz4ultra_get_literals_varlen_size(nNumLiterals + nMatchLen))
          ELSE LET nNextNumLiterals ==
                       CountNextLiterals(match, i + nMatchLen, 0, nEndOffset)
               IN nCommandSize >= ((nMatchLen * 8)
                      + lz4ultra_get_literals_varlen_size(nNumLiterals + nNextNumLiterals
                                                          + nMatchLen)
                      - lz4ultra_get_literals_varlen_size(nNextNumLiterals))

\* memcmp(a, b, n) = 0 on the window
SameBytes(W, a, b, n) == \A j \in 0..(n - 1) : W[a + j] = W[b + j]

\* the same condition without the comparison of the bytes the two matches
\* copy from
CanJoinUncompared(W, match, i, nMatchLen, nEndOffset) ==
    /\ (i + nMatchLen) < nEndOffset
    /\ match[i].offset > 0
    /\ nMatchLen >= 2
    /\ match[i + nMatchLen].offset > 0
    /\ GEu(match[i + nMatchLen].length, 2)
    /\ (nMatchLen + match[i + nMatchLen].length) >= LEAVE_ALONE_MATCH_SIZE
    /\ (nMatchLen + match[i + nMatchLen].length) <= 65535
    /\ (i + nMatchLen) >= match[i].offset
    /\ (i + nMatchLen) >= match[i + nMatchLen].offset
    /\ (i + nMatchLen + match[i + nMatchLen].length) <= nEndOffset
\* the condition under which two adjacent matches are joined
CanJoin(W, match, i, nMatchLen, nEndOffset) ==
    /\ (i + nMatchLen) < nEndOffset
    /\ match[i].offset > 0
    /\ nMatchLen >= 2
    /\ match[i + nMatchLen].offset > 0
    /\ GEu(match[i + nMatchLen].length, 2)
    /\ (nMatchLen + match[i + nMatchLen].length) >= LEAVE_ALONE_MATCH_SIZE
    /\ (nMatchLen + match[i + nMatchLen].length) <= 65535
    /\ (i + nMatchLen) >= match[i].offset
    /\ (i + nMatchLen) >= match[i + nMatchLen].offset
    /\ (i + nMatchLen + match[i + nMatchLen].length) <= nEndOffset
    /\ SameBytes(W, i + nMatchLen - match[i].offset,
                 i + nMatchLen - match[i + nMatchLen].offset,
                 match[i + nMatchLen].length)

RECURSIVE CommandCountLoop(_, _, _)
\* "for (i = nStartOffset; i < nEndOffset; )"; c holds match[], i and
\* nNumLiterals
CommandCountLoop(W, c, nEndOffset) ==
    IF c.i >= nEndOffset THEN c
    ELSE IF GEu(c.match[c.i].length, MIN_MATCH_SIZE)
    THEN LET i == c.i
             nMatchLen == c.match[i].length
         IN IF ShouldReduce(c.match, i, nMatchLen, c.nNumLiterals, nEndOffset)
            THEN CommandCountLoop(W,
                     [match |-> Array([p \in DOMAIN c.match |->
                                          IF p >= i /\ p < i + nMatchLen
                                          THEN [c.match[p] EXCEPT !.length = 0]
                                          ELSE c.match[p]]),
                      i |-> i + nMatchLen,
                      nNumLiterals |-> c.nNumLiterals + nMatchLen],
                     nEndOffset)
            ELSE IF CanJoin(W, c.match, i, nMatchLen, nEndOffset)
            THEN CommandCountLoop(W,
                     [c EXCEPT !.match =
                         [c.match EXCEPT
                             ![i].length = nMatchLen + c.match[i + nMatchLen].length,
                             ![i + nMatchLen] = [length |-> -1, offset |-> 0]]],
                     nEndOffset)
            ELSE CommandCountLoop(W,
                     [c EXCEPT !.i = i + nMatchLen, !.nNumLiterals = 0], nEndOffset)
    ELSE CommandCountLoop(W, [c EXCEPT !.i = @ + 1, !.nNumLiterals = @ + 1],
                          nEndOffset)

\* match[] as the peephole pass leaves it
lz4ultra_optimize_command_count_lz4(W, match, nStartOffset, nEndOffset) ==
    CommandCountLoop(W, [match |-> match, i |-> nStartOffset, nNumLiterals |-> 0],
                     nEndOffset).match

(***************************************************************************)
(* Block emitter (lz4ultra_write_block_lz4)                                *)
(***************************************************************************)
\* the bytes memcpy takes from the window for a literal run
LiteralBytes(W, nInFirstLiteralOffset, nNumLiterals) ==
    [j \in 1..nNumLiterals |-> W[nInFirstLiteralOffset + j - 1]]

\* the bytes of one match command: token, literal length bytes, literals,
\* offset (little endian), match length bytes
MatchCommandBytes(W, nInFirstLiteralOffset, nNumLiterals, nMatchOffset, nEncodedMatchLen) ==
    LET nTokenLiteralsLen == IF nNumLiterals >= LITERALS_RUN_LEN THEN LITERALS_RUN_LEN
                             ELSE nNumLiterals
        nTokenMatchLen == IF nEncodedMatchLen >= MATCH_RUN_LEN THEN MATCH_RUN_LEN
                          ELSE nEncodedMatchLen
    IN lz4ultra_write_match_varlen(
           lz4ultra_write_literals_varlen(<<(nTokenLiteralsLen * 16) + nTokenMatchLen>>,
                                          nNumLiterals)
             \o LiteralBytes(W, nInFirstLiteralOffset, nNumLiterals)
             \o <<nMatchOffset % 256, nMatchOffset \div 256>>,
           nEncodedMatchLen)

\* the size the emitter computes for a match command, in bytes (nCommandSize >> 3)
MatchCommandSize(nNumLiterals, nEncodedMatchLen) ==
    (8 + lz4ultra_get_literals_varlen_size(nNumLiterals) + (nNumLiterals * 8) + 16
       + lz4ultra_get_match_varlen_size(nEncodedMatchLen)) \div 8

\* the size the emitter computes for the last, match-less command
LastCommandSize(nNumLiterals) ==
    (8 + lz4ultra_get_literals_varlen_size(nNumLiterals) + (nNumLiterals * 8)) \div 8

\* the last command and the end-of-data marker of raw blocks
WriteLastCommand(W, e, bRawBlock, nMaxOutDataSize) ==
    LET nTokenLiteralsLen == IF e.nNumLiterals >= LITERALS_RUN_LEN THEN LITERALS_RUN_LEN
                             ELSE e.nNumLiterals
        out1 == e.out
                \o lz4ultra_write_literals_varlen(<<nTokenLiteralsLen * 16>>, e.nNumLiterals)
                \o LiteralBytes(W, e.nInFirstLiteralOffset, e.nNumLiterals)
    IN IF (Len(e.out) + LastCommandSize(e.nNumLiterals)) > nMaxOutDataSize
       THEN [ret |-> -1, out |-> e.out, num_commands |-> e.num_commands,
             cmds |-> e.cmds]
       ELSE IF bRawBlock
       THEN IF (Len(out1) + 2) > nMaxOutDataSize
            THEN [ret |-> -1, out |-> out1, num_commands |-> e.num_commands,
                  cmds |-> e.cmds]
            ELSE [ret |-> Len(out1) + 2, out |-> out1 \o <<0, 0>>,
                  num_commands |-> e.num_commands + 1, cmds |-> e.cmds]
       ELSE [ret |-> Len(out1), out |-> out1, num_commands |-> e.num_commands + 1,
             cmds |-> e.cmds]

RECURSIVE WriteLoop(_, _, _, _, _)
\* e: the emitter's locals; out holds the bytes stored so far (nOutOffset is
\* its length), cmds the match commands written as <<start, offset, length>>
WriteLoop(W, match, e, bRawBlock, nMaxOutDataSize) ==
    IF e.i >= e.nEndOffset THEN WriteLastCommand(W, e, bRawBlock, nMaxOutDataSize)
    ELSE IF GEu(match[e.i].length, MIN_MATCH_SIZE)
    THEN LET nMatchOffset == match[e.i].offset
             nMatchLen == match[e.i].length
             nEncodedMatchLen == nMatchLen - MIN_MATCH_SIZE
         IN IF (Len(e.out) + MatchCommandSize(e.nNumLiterals, nEncodedMatchLen))
                   > nMaxOutDataSize
            THEN [ret |-> -1, out |-> e.out, num_commands |-> e.num_commands,
                  cmds |-> e.cmds]
            ELSE IF nMatchOffset < MIN_OFFSET \/ nMatchOffset > MAX_OFFSET
            THEN [ret |-> -1, out |-> e.out, num_commands |-> e.num_commands,
                  cmds |-> e.cmds]
            ELSE WriteLoop(W, match,
                     [e EXCEPT
                         !.nNumLiterals = 0,
                         !.out = @ \o MatchCommandBytes(W, e.nInFirstLiteralOffset,
                                          e.nNumLiterals, nMatchOffset, nEncodedMatchLen),
                         !.num_commands = @ + 1,
                         !.cmds = Append(@, <<e.i, nMatchOffset, nMatchLen>>),
                         !.i = @ + nMatchLen],
                     bRawBlock, nMaxOutDataSize)
    ELSE WriteLoop(W, match,
             [e EXCEPT !.nInFirstLiteralOffset = IF e.nNumLiterals = 0 THEN e.i ELSE @,
                       !.nNumLiterals = @ + 1,
                       !.i = @ + 1],
             bRawBlock, nMaxOutDataSize)

\* [ret, out, num_commands, cmds]: the return value, the bytes stored in
\* pOutData, the commands counted, and the match commands written
lz4ultra_write_block_lz4(W, match, nStartOffset, nEndOffset, bRawBlock, nMaxOutDataSize) ==
    WriteLoop(W, match,
              [nNumLiterals |-> 0, nInFirstLiteralOffset |-> 0, out |-> <<>>,
               num_commands |-> 0, cmds |-> <<>>, i |-> nStartOffset,
               nEndOffset |-> nEndOffset],
              bRawBlock, nMaxOutDataSize)


(***************************************************************************)
(* C integers wider than the checker's own.  A wide value is <<h, l>> and  *)
(* stands for h * 65536 + l, with 0 <= l < 65536.  size_t, unsigned int    *)
(* and the casts between them and int are computed on wide values, so that *)
(* a length or a size past 2^31 wraps the way the C type wraps.            *)
(***************************************************************************)
Wide(x) == <<x \div 65536, x % 65536>>
WAdd(a, b) == <<a[1] + b[1] + ((a[2] + b[2]) \div 65536), (a[2] + b[2]) % 65536>>
WSub(a, b) == <<(a[1] - b[1]) + ((a[2] - b[2]) \div 65536), (a[2] - b[2]) % 65536>>
WLess(a, b) == a[1] < b[1] \/ (a[1] = b[1] /\ a[2] < b[2])
\* a * k for a small factor k
WTimes(a, k) == <<(a[1] * k) + ((a[2] * k) \div 65536), (a[2] * k) % 65536>>
\* the value of a wide number that fits the checker's integers
WInt(a) == (a[1] * 65536) + a[2]
WFits(a) == a[1] >= -32768 /\ a[1] <= 32767
\* conversion to unsigned int: the low 32 bits
ToUnsigned(a) == <<a[1] % 65536, a[2]>>
\* conversion to int: the low 32 bits, two's complement
ToInt(a) ==
    LET h == a[1] % 65536
    IN ((IF h >= 32768 THEN h - 65536 ELSE h) * 65536) + a[2]
\* "<" between two size_t values: a negative wide value stands for the
\* size_t it wraps to, which is above every value the model holds otherwise
SizeLess(a, b) ==
    IF (a[1] < 0) = (b[1] < 0) THEN WLess(a, b) ELSE b[1] < 0

(***************************************************************************)
(* Compressed blocks handed to a decoder.  A block is head, then nFill     *)
(* bytes equal to fill, then tail: a long run of equal bytes is held by    *)
(* its length.                                                             *)
(***************************************************************************)
Block(head, fill, nFill, tail) ==
    [head |-> head, fill |-> fill, nFill |-> nFill, tail |-> tail]
PlainBlock(bytes) == Block(bytes, 0, 0, <<>>)
BlockSize(blk) == Len(blk.head) + blk.nFill + Len(blk.tail)
Undef == -1        \* content of a byte nobody stored yet
InByte(blk, idx) ==
    IF idx < 0 \/ idx >= BlockSize(blk) THEN Undef
    ELSE IF idx < Len(blk.head) THEN blk.head[idx + 1]
    ELSE IF idx < Len(blk.head) + blk.nFill THEN blk.fill
    ELSE blk.tail[(idx - Len(blk.head) - blk.nFill) + 1]
\* the index of the first byte from idx on that is not 255, BlockSize(blk)
\* when there is none; the fill of the block is passed in one step
FirstNot255(blk, idx) ==
    LET nHead == Len(blk.head)
        nSize == BlockSize(blk)
        First(S, nNone) == IF S = {} THEN nNone ELSE CHOOSE m \in S : \A x \in S : m <= x
        inHead == First({j \in idx..(nHead - 1) : blk.head[j + 1] # 255}, nHead)
        atFill == Max(idx, nHead)
        inTail == First({j \in Max(idx, nHead + blk.nFill)..(nSize - 1) :
                            blk.tail[(j - nHead - blk.nFill) + 1] # 255}, nSize)
    IN IF idx < nHead /\ inHead < nHead THEN inHead
       ELSE IF atFill < nHead + blk.nFill /\ blk.fill # 255 THEN atFill
       ELSE inTail

(***************************************************************************)
(* Block decoder (lz4ultra_decompressor_expand_block_lz4)                  *)
(*                                                                         *)
(* pOutData is the function buf over the output window.  Pointers are      *)
(* indices.  A decoder state d holds pIn, pCur, buf, the return value once *)
(* the call ended (Running before), and three flags that record an access  *)
(* outside the buffers: wrOut (a store outside [first, last) of the        *)
(* output), rdIn (a load outside the block), rdOut (a match byte loaded    *)
(* from outside the output window).                                        *)
(***************************************************************************)
Running == -2      \* value of d.ret while the call has not returned

\* memcpy(pCur, pIn, n) from the block into the output
CopyFromBlock(d, blk, n, first, last) ==
    [d EXCEPT !.buf = Array([p \in DOMAIN d.buf |->
                                IF p >= d.pCur /\ p < d.pCur + n
                                THEN InByte(blk, d.pIn + (p - d.pCur))
                                ELSE d.buf[p]]),
              !.wrOut = @ \/ (n > 0 /\ (d.pCur < first \/ d.pCur + n > last)),
              !.rdIn = @ \/ (n > 0 /\ d.pIn + n > BlockSize(blk))]

\* the byte a forward copy with distance nMatchOffset stores at pCur + j
CopiedByte(buf, pCur, nMatchOffset, j) ==
    LET src == IF nMatchOffset > 0 THEN (pCur - nMatchOffset) + (j % nMatchOffset)
               ELSE pCur + j
    IN IF src \in DOMAIN buf THEN buf[src] ELSE Undef

\* n bytes copied forward from pCur - nMatchOffset to pCur
CopyMatch(d, nMatchOffset, n, first, last) ==
    [d EXCEPT !.buf = Array([p \in DOMAIN d.buf |->
                                IF p >= d.pCur /\ p < d.pCur + n
                                THEN CopiedByte(d.buf, d.pCur, nMatchOffset, p - d.pCur)
                                ELSE d.buf[p]]),
              !.wrOut = @ \/ (n > 0 /\ (d.pCur < first \/ d.pCur + n > last)),
              !.rdOut = @ \/ (n > 0 /\ (d.pCur - nMatchOffset < 0
                                        \/ (d.pCur - nMatchOffset) + n > last))]

\* LZ4ULTRA_DECOMPRESSOR_BUILD_LEN on an unsigned int: [len, pIn, fail], len
\* a wide value.  The bytes 255 are added in one step, then the byte that
\* ends them; the block ending first is the failure.
BuildLen(blk, pIn, len) ==
    LET pLast == FirstNot255(blk, pIn)
        nRun == pLast - pIn
    IN IF pLast >= BlockSize(blk)
       THEN [len |-> len, pIn |-> BlockSize(blk), fail |-> TRUE]
       ELSE [len |-> ToUnsigned(WAdd(WAdd(len, WTimes(Wide(nRun), 255)),
                                     Wide(InByte(blk, pLast)))),
             pIn |-> pLast + 1, fail |-> FALSE]

Fail(d) == [d EXCEPT !.ret = -1]

\* the literals of one command; d.pIn is past the token
ExpandLiterals(d, blk, token, first, last) ==
    LET nLiterals == token \div 16
        pOutDataFastEnd == last - 18
    IN IF nLiterals # LITERALS_RUN_LEN /\ d.pCur <= pOutDataFastEnd
          /\ (d.pIn + 16) <= BlockSize(blk)
       THEN LET c == CopyFromBlock(d, blk, 16, first, last)
            IN [c EXCEPT !.pIn = @ + nLiterals, !.pCur = @ + nLiterals]
       ELSE LET b == IF nLiterals = LITERALS_RUN_LEN
                     THEN BuildLen(blk, d.pIn, Wide(nLiterals))
                     ELSE [len |-> Wide(nLiterals), pIn |-> d.pIn, fail |-> FALSE]
                d1 == [d EXCEPT !.pIn = b.pIn]
            IN IF b.fail THEN Fail(d1)
               ELSE IF WLess(Wide(BlockSize(blk)), WAdd(Wide(b.pIn), b.len))
               THEN Fail(d1)
               ELSE IF WLess(Wide(last), WAdd(Wide(d.pCur), b.len)) THEN Fail(d1)
               ELSE LET c == CopyFromBlock(d1, blk, WInt(b.len), first, last)
                    IN [c EXCEPT !.pIn = @ + WInt(b.len), !.pCur = @ + WInt(b.len)]

\* the match of one command; d.pIn is at the offset bytes
ExpandMatch(d, blk, token, first, last) ==
    LET nMatchOffset == InByte(blk, d.pIn) + (256 * InByte(blk, d.pIn + 1))
        nMatchLen == (token % 16) + MIN_MATCH_SIZE
        pOutDataFastEnd == last - 18
        d2 == [d EXCEPT !.pIn = @ + 2]
    IN IF nMatchLen # (MATCH_RUN_LEN + MIN_MATCH_SIZE) /\ nMatchOffset >= 8
          /\ d.pCur <= pOutDataFastEnd
       THEN IF (d.pCur - nMatchOffset) < 0 THEN Fail(d2)
            ELSE [CopyMatch(d2, nMatchOffset, 18, first, last) EXCEPT
                      !.pCur = @ + nMatchLen]
       ELSE LET b == IF nMatchLen = (MATCH_RUN_LEN + MIN_MATCH_SIZE)
                     THEN BuildLen(blk, d2.pIn, Wide(nMatchLen))
                     ELSE [len |-> Wide(nMatchLen), pIn |-> d2.pIn, fail |-> FALSE]
                d3 == [d2 EXCEPT !.pIn = b.pIn]
            IN IF b.fail THEN Fail(d3)
               ELSE IF WLess(Wide(last), WAdd(Wide(d.pCur), b.len)) THEN Fail(d3)
               ELSE IF (d.pCur - nMatchOffset) < 0 THEN Fail(d3)
               ELSE IF nMatchOffset >= 16 /\ (d.pCur + WInt(b.len)) <= pOutDataFastEnd
               THEN [CopyMatch(d3, nMatchOffset, 16 * ((WInt(b.len) + 15) \div 16),
                               first, last) EXCEPT !.pCur = @ + WInt(b.len)]
               ELSE [CopyMatch(d3, nMatchOffset, WInt(b.len), first, last) EXCEPT
                         !.pCur = @ + WInt(b.len)]

\* one turn of the decoder's while loop
ExpandCommand(d, blk, first, last) ==
    LET token == InByte(blk, d.pIn)
        l == ExpandLiterals([d EXCEPT !.pIn = @ + 1], blk, token, first, last)
    IN IF l.ret # Running THEN l
       ELSE IF (l.pIn + 2) <= BlockSize(blk) THEN ExpandMatch(l, blk, token, first, last)
       ELSE l

RECURSIVE ExpandLoop(_, _, _, _)
ExpandLoop(d, blk, first, last) ==
    IF d.ret # Running THEN d
    ELSE IF d.pIn < BlockSize(blk)
    THEN ExpandLoop(ExpandCommand(d, blk, first, last), blk, first, last)
    ELSE [d EXCEPT !.ret = d.pCur - first]

\* the decoder's state on entry
ExpandStart(buf, nOutDataOffset) ==
    [pIn |-> 0, pCur |-> nOutDataOffset, buf |-> buf, ret |-> Running,
     wrOut |-> FALSE, rdIn |-> FALSE, rdOut |-> FALSE]

\* the decoder's state on return: ret is the return value, buf the output
lz4ultra_decompressor_expand_block_lz4(blk, buf, nOutDataOffset, nBlockMaxSize) ==
    ExpandLoop(ExpandStart(buf, nOutDataOffset), blk, nOutDataOffset,
               nOutDataOffset + nBlockMaxSize)

(***************************************************************************)
(* Block decoder with a fast and a slow loop (lz4ultra_expand_block)       *)
(*                                                                         *)
(* The same decoder state as above.  nLiterals and nMatchLen are int here: *)
(* a sum past 2^31 - 1 wraps to a negative int, which every pointer        *)
(* comparison that follows then takes for a step backwards.                *)
(***************************************************************************)
Faulted == -3      \* value of d.ret when the call ran into a copy it cannot finish

\* the do/while of the slow paths: adds bytes to the int len until a byte is
\* not 255 or the block ends (break); [len, pIn]
AddLenBytes(blk, pIn, len) ==
    LET nSize == BlockSize(blk)
        pLast == FirstNot255(blk, pIn)
        nRun == Min(pLast, nSize) - pIn
        nEndByte == IF pLast < nSize THEN InByte(blk, pLast) ELSE 0
    IN IF pIn >= nSize THEN [len |-> len, pIn |-> pIn]
       ELSE [len |-> ToInt(WAdd(WAdd(Wide(len), WTimes(Wide(nRun), 255)),
                                Wide(nEndByte))),
             pIn |-> IF pLast < nSize THEN pLast + 1 ELSE nSize]

\* memcpy(pCur, pIn, nLiterals) with a negative int for its size_t argument:
\* the copy runs over the end of both buffers and never completes
CopyWithoutEnd(d) ==
    [d EXCEPT !.wrOut = TRUE, !.rdIn = TRUE, !.ret = Faulted]

lz4ultra_expand_literals_slow(d, blk, nTokenLiterals, first, last) ==
    LET b == IF nTokenLiterals = LITERALS_RUN_LEN
             THEN AddLenBytes(blk, d.pIn, nTokenLiterals)
             ELSE [len |-> nTokenLiterals, pIn |-> d.pIn]
        nLiterals == b.len
        d1 == [d EXCEPT !.pIn = b.pIn]
    IN IF nLiterals = 0 THEN d1
       ELSE IF WLess(Wide(BlockSize(blk)), WAdd(Wide(b.pIn), Wide(nLiterals)))
               \/ WLess(Wide(last), WAdd(Wide(d.pCur), Wide(nLiterals)))
       THEN Fail(d1)
       ELSE IF nLiterals < 0 THEN CopyWithoutEnd(d1)
       ELSE LET c == CopyFromBlock(d1, blk, nLiterals, first, last)
            IN [c EXCEPT !.pIn = @ + nLiterals, !.pCur = @ + nLiterals]

\* d.pIn is past the offset bytes, pSrc = d.pCur - nMatchOffset >= 0
lz4ultra_expand_match_slow(d, blk, nMatchOffset, nTokenMatchLen, first, last) ==
    LET b == IF nTokenMatchLen = MATCH_RUN_LEN
             THEN AddLenBytes(blk, d.pIn, nTokenMatchLen)
             ELSE [len |-> nTokenMatchLen, pIn |-> d.pIn]
        nMatchLen == ToInt(WAdd(Wide(b.len), Wide(MIN_MATCH_SIZE)))
        pOutDataFastEnd == last - 16
        d1 == [d EXCEPT !.pIn = b.pIn]
        nMaxFast == IF (d.pCur + nMatchLen) > (pOutDataFastEnd - 15)
                    THEN (pOutDataFastEnd - 15) - d.pCur ELSE nMatchLen
        bFast == nMatchOffset >= 8 /\ nMaxFast > 0
        f == IF bFast
             THEN [CopyMatch(d1, nMatchOffset, 16 * ((nMaxFast + 15) \div 16),
                             first, last) EXCEPT !.pCur = @ + nMaxFast]
             ELSE d1
        nRest == IF bFast THEN nMatchLen - nMaxFast ELSE nMatchLen
    IN IF WLess(Wide(last), WAdd(Wide(d.pCur), Wide(nMatchLen))) THEN Fail(d1)
       ELSE IF nMatchOffset = 1 /\ nMatchLen >= 16
       THEN [CopyMatch(d1, 1, nMatchLen, first, last) EXCEPT !.pCur = @ + nMatchLen]
       ELSE IF nRest > 0
       THEN [CopyMatch(f, nMatchOffset, nRest, first, last) EXCEPT !.pCur = @ + nRest]
       ELSE f

\* memcpy(pCur, pSrc, 16) of the fast match: the ranges overlap when the
\* offset is below 16, and then only the bytes in front of pCur are copied
\* the same by every memcpy
CopySixteen(d, nMatchOffset, first, last) ==
    [d EXCEPT !.buf = Array([p \in DOMAIN d.buf |->
                                IF p >= d.pCur /\ p < d.pCur + 16
                                THEN IF (p - d.pCur) < nMatchOffset
                                     THEN d.buf[p - nMatchOffset]
                                     ELSE Undef
                                ELSE d.buf[p]]),
              !.wrOut = @ \/ d.pCur < first \/ d.pCur + 16 > last,
              !.rdOut = @ \/ (d.pCur - nMatchOffset) + 16 > last]

\* the match of one command in either loop; d.pIn is at the offset bytes
ExpandBlockMatch(d, blk, token, bFastLoop, first, last) ==
    LET nMatchOffset == InByte(blk, d.pIn) + (256 * InByte(blk, d.pIn + 1))
        pSrc == d.pCur - nMatchOffset
        nMatchLen == token % 16
        d2 == [d EXCEPT !.pIn = @ + 2]
    IN IF pSrc < 0 THEN Fail(d2)
       ELSE IF bFastLoop /\ nMatchLen < ((16 - MIN_MATCH_SIZE) + 1)
               /\ (pSrc + MIN_MATCH_SIZE + nMatchLen) < d.pCur
               /\ d.pCur < (last - 16)
       THEN [CopySixteen(d2, nMatchOffset, first, last) EXCEPT
                 !.pCur = @ + (MIN_MATCH_SIZE + nMatchLen)]
       ELSE lz4ultra_expand_match_slow(d2, blk, nMatchOffset, nMatchLen, first, last)

\* one turn of the fast loop (bFastLoop) or of the slow loop
ExpandBlockCommand(d, blk, bFastLoop, first, last) ==
    LET token == InByte(blk, d.pIn)
        nLiterals == token \div 16
        t == [d EXCEPT !.pIn = @ + 1]
        l == IF bFastLoop /\ nLiterals < 15
             THEN [CopyFromBlock(t, blk, 16, first, last) EXCEPT
                       !.pIn = @ + nLiterals, !.pCur = @ + nLiterals]
             ELSE lz4ultra_expand_literals_slow(t, blk, nLiterals, first, last)
    IN IF l.ret # Running THEN l
       ELSE IF (l.pIn + 1) < BlockSize(blk)
       THEN ExpandBlockMatch(l, blk, token, bFastLoop, first, last)
       ELSE l

\* the fast loop, then the slow loop for the remainder, then the return
RECURSIVE ExpandBlockLoop(_, _, _, _, _)
ExpandBlockLoop(d, blk, bFastLoop, first, last) ==
    IF d.ret # Running THEN d
    ELSE IF bFastLoop
    THEN IF d.pIn < (BlockSize(blk) - 16) /\ d.pCur < (last - 16)
         THEN ExpandBlockLoop(ExpandBlockCommand(d, blk, TRUE, first, last),
                              blk, TRUE, first, last)
         ELSE ExpandBlockLoop(d, blk, FALSE, first, last)
    ELSE IF d.pIn < BlockSize(blk)
    THEN ExpandBlockLoop(ExpandBlockCommand(d, blk, FALSE, first, last),
                         blk, FALSE, first, last)
    ELSE [d EXCEPT !.ret = d.pCur - first]

lz4ultra_expand_block(blk, buf, nOutDataOffset, nBlockMaxSize) ==
    ExpandBlockLoop(ExpandStart(buf, nOutDataOffset), blk, TRUE, nOutDataOffset,
                    nOutDataOffset + nBlockMaxSize)

(***************************************************************************)
(* Frame header.  unsigned 32-bit words are wide values <<h, l>> with both *)
(* halves from 0 to 65535.                                                 *)
(***************************************************************************)
LZ4ULTRA_MAX_HEADER_SIZE == 7
LZ4ULTRA_FRAME_SIZE == 4
LZ4ULTRA_ENCODE_ERR == -1
LZ4ULTRA_DECODE_OK == 0
LZ4ULTRA_DECODE_ERR_FORMAT == -1
LZ4ULTRA_DECODE_ERR_SUM == -2

\* x * y for two 16-bit halves, as a wide value
Mul16(x, y) == WAdd(WTimes(Wide(x * (y \div 256)), 256), Wide(x * (y % 256)))
\* the low 32 bits of a + b and of a * b
Add32(a, b) == ToUnsigned(WAdd(a, b))
Mul32(a, b) ==
    LET low == Mul16(a[2], b[2])
    IN <<(low[1] + Mul16(a[1], b[2])[2] + Mul16(a[2], b[1])[2]) % 65536, low[2]>>
\* a rotated left by r bits and a shifted right by r bits, 0 < r < 16
Rotl32(a, r) ==
    LET shifted == ToUnsigned(WTimes(a, 2 ^ r))
    IN <<shifted[1], shifted[2] + (a[1] \div (2 ^ (16 - r)))>>
Shr32(a, r) == Wide((a[1] * (2 ^ (16 - r))) + (a[2] \div (2 ^ r)))
RECURSIVE Xor16(_, _)
Xor16(x, y) ==
    IF x = 0 THEN y
    ELSE IF y = 0 THEN x
    ELSE ((x + y) % 2) + (2 * Xor16(x \div 2, y \div 2))
Xor32(a, b) == <<Xor16(a[1], b[1]), Xor16(a[2], b[2])>>

PRIME32_1 == <<40503, 31153>>      \* 2654435761
PRIME32_2 == <<34283, 51831>>      \* 2246822519
PRIME32_3 == <<49842, 44605>>      \* 3266489917
PRIME32_5 == <<5718, 26545>>       \* 374761393

\* the bytes of the input from the i-th on, one at a time
RECURSIVE XXH32_bytes(_, _, _)
XXH32_bytes(h32, input, i) ==
    IF i > Len(input) THEN h32
    ELSE XXH32_bytes(Mul32(Rotl32(Add32(h32, Mul32(Wide(input[i]), PRIME32_5)), 11),
                           PRIME32_1),
                     input, i + 1)
XXH32_avalanche(h32) ==
    LET h1 == Mul32(Xor32(h32, Shr32(h32, 15)), PRIME32_2)
        h2 == Mul32(Xor32(h1, Shr32(h1, 13)), PRIME32_3)
    IN Xor32(h2, <<0, h2[1]>>)
\* XXH32 of an input shorter than 4 bytes
XXH32(input, seed) ==
    XXH32_avalanche(XXH32_bytes(Add32(Add32(seed, PRIME32_5), Wide(Len(input))),
                                input, 1))

\* [ret, pFrameData]: the return value and the bytes stored
lz4ultra_encode_header(nMaxFrameDataSize, nBlockMaxCode, nIsIndependentBlocks) ==
    IF nMaxFrameDataSize >= 7
    THEN LET flags == 64 + (IF nIsIndependentBlocks # 0 THEN 32 ELSE 0)
             blockMax == (nBlockMaxCode * 16) % 256
             headerSum == XXH32(<<flags, blockMax>>, <<0, 0>>)
         IN [ret |-> 7,
             pFrameData |-> <<4, 34, 77, 24, flags, blockMax, headerSum[2] \div 256>>]
    ELSE [ret |-> LZ4ULTRA_ENCODE_ERR, pFrameData |-> <<>>]

\* [ret, nBlockMaxCode, nIsIndependentBlocks]: the return value and the two
\* results, which keep the caller's values unless the header is accepted
lz4ultra_decode_header(pFrameData, nFrameDataSize, nBlockMaxCode, nIsIndependentBlocks) ==
    LET refused(nError) == [ret |-> nError, nBlockMaxCode |-> nBlockMaxCode,
                            nIsIndependentBlocks |-> nIsIndependentBlocks]
    IN IF nFrameDataSize = 7
       THEN IF \/ pFrameData[1] # 4
               \/ pFrameData[2] # 34
               \/ pFrameData[3] # 77
               \/ pFrameData[4] # 24
               \/ (pFrameData[5] \div 64) # 1
               \/ (pFrameData[6] % 16) # 0
            THEN refused(LZ4ULTRA_DECODE_ERR_FORMAT)
            ELSE IF (XXH32(<<pFrameData[5], pFrameData[6]>>, <<0, 0>>)[2] \div 256)
                        # pFrameData[7]
            THEN refused(LZ4ULTRA_DECODE_ERR_SUM)
            ELSE [ret |-> LZ4ULTRA_DECODE_OK,
                  nBlockMaxCode |-> pFrameData[6] \div 16,
                  nIsIndependentBlocks |-> IF (pFrameData[5] \div 32) % 2 = 1
                                           THEN 1 ELSE 0]
       ELSE refused(LZ4ULTRA_DECODE_ERR_FORMAT)

\* [ret, pFrameData]: the return value and the bytes stored
BlockFrame(nMaxFrameDataSize, nBlockDataSize, nHighBit) ==
    IF nMaxFrameDataSize >= 4 /\ nBlockDataSize >= 0
    THEN [ret |-> 4,
          pFrameData |-> <<nBlockDataSize % 256, (nBlockDataSize \div 256) % 256,
                           (nBlockDataSize \div 65536) % 256,
                           ((nBlockDataSize \div 16777216) % 128) + nHighBit>>]
    ELSE [ret |-> LZ4ULTRA_ENCODE_ERR, pFrameData |-> <<>>]
lz4ultra_encode_compressed_block_frame(nMaxFrameDataSize, nBlockDataSize) ==
    BlockFrame(nMaxFrameDataSize, nBlockDataSize, 0)
lz4ultra_encode_uncompressed_block_frame(nMaxFrameDataSize, nBlockDataSize) ==
    BlockFrame(nMaxFrameDataSize, nBlockDataSize, 128)
lz4ultra_encode_footer_frame(nMaxFrameDataSize) ==
    IF nMaxFrameDataSize >= 4
    THEN [ret |-> 4, pFrameData |-> <<0, 0, 0, 0>>]
    ELSE [ret |-> LZ4ULTRA_ENCODE_ERR, pFrameData |-> <<>>]

\* [ret, nBlockSize, nIsUncompressed]; the two results are left as they
\* were (here: Undef) when the call fails
DecodeFrameUnmasked(pFrameData, nFrameDataSize) ==
    IF nFrameDataSize = 4
    THEN [ret |-> 0,
          nBlockSize |-> pFrameData[1] + (pFrameData[2] * 256) + (pFrameData[3] * 65536)
                            + ((pFrameData[4] % 64) * 16777216),
          nIsUncompressed |-> IF pFrameData[4] >= 128 THEN 1 ELSE 0]
    ELSE [ret |-> LZ4ULTRA_DECODE_ERR_FORMAT, nBlockSize |-> Undef,
          nIsUncompressed |-> Undef]
lz4ultra_decode_frame(pFrameData, nFrameDataSize) ==
    IF nFrameDataSize = 4
    THEN [ret |-> 0,
          nBlockSize |-> pFrameData[1] + (pFrameData[2] * 256) + (pFrameData[3] * 65536)
                            + ((pFrameData[4] % 128) * 16777216),
          nIsUncompressed |-> IF pFrameData[4] >= 128 THEN 1 ELSE 0]
    ELSE [ret |-> LZ4ULTRA_DECODE_ERR_FORMAT, nBlockSize |-> Undef,
          nIsUncompressed |-> Undef]

(***************************************************************************)
(* Frames in memory: lz4ultra_get_max_compressed_size_inmem and            *)
(* lz4ultra_compress_inmem.  size_t values are wide.                       *)
(***************************************************************************)
LZ4ULTRA_OK == 0
LZ4ULTRA_ERROR_SRC == 1
LZ4ULTRA_ERROR_DST == 2
LZ4ULTRA_ERROR_MEMORY == 4
LZ4ULTRA_ERROR_COMPRESSION == 5
LZ4ULTRA_ERROR_RAW_TOOLARGE == 6
LZ4ULTRA_ERROR_RAW_UNCOMPRESSED == 7
HISTORY_SIZE == 65536

BlockMaxBits(nBlockMaxCode) == 8 + (nBlockMaxCode * 2)
BlockMaxSizeOf(nBlockMaxCode) == 2 ^ BlockMaxBits(nBlockMaxCode)

\* "if the entire input data is shorter than the specified block size, try
\* to reduce the block size": the do/while loop, nInputSize wide
RECURSIVE ReduceBlockMaxCode(_, _)
ReduceBlockMaxCode(nInputSize, nBlockMaxCode) ==
    IF nBlockMaxCode > 4 /\ SizeLess(nInputSize, Wide(BlockMaxSizeOf(nBlockMaxCode - 1)))
    THEN ReduceBlockMaxCode(nInputSize, nBlockMaxCode - 1)
    ELSE nBlockMaxCode
\* the block size code in use once the input size is known
EffectiveBlockMaxCode(nInputSize, nBlockMaxCode) ==
    IF SizeLess(nInputSize, Wide(BlockMaxSizeOf(nBlockMaxCode)))
    THEN ReduceBlockMaxCode(nInputSize, nBlockMaxCode)
    ELSE nBlockMaxCode

\* a wide value that is not negative, shifted right by 16 bits or more
WShr(a, nBits) == Wide(a[1] \div (2 ^ (nBits - 16)))

lz4ultra_get_max_compressed_size_inmem(nInputSize, nBlockMaxCode) ==
    LET nBlockMaxBits == BlockMaxBits(EffectiveBlockMaxCode(nInputSize, nBlockMaxCode))
        nBlockMaxSize == 2 ^ nBlockMaxBits
    IN WAdd(WAdd(WAdd(Wide(LZ4ULTRA_MAX_HEADER_SIZE),
                      WTimes(WShr(WAdd(nInputSize, Wide(nBlockMaxSize - 1)),
                                  nBlockMaxBits),
                             LZ4ULTRA_FRAME_SIZE)),
                 nInputSize),
            Wide(LZ4ULTRA_FRAME_SIZE))

\* what lz4ultra_compressor_shrink_block can return for a block of
\* nInDataSize bytes and room for nMaxOutDataSize: [ret, cause].  A block
\* compresses to some size between that of one repeated byte and that of
\* literals alone (raw blocks: two bytes more); it is returned when it fits,
\* and -1 when it does not ("incompressible") or when the index of the
\* block could not be built ("failed")
SmallestShrunk(nInDataSize) ==
    IF nInDataSize < MIN_MATCH_SIZE + LAST_LITERALS + 2 THEN LastCommandSize(nInDataSize)
    ELSE MatchCommandSize(1, nInDataSize - (LAST_LITERALS + 1) - MIN_MATCH_SIZE)
            + LastCommandSize(LAST_LITERALS)
LargestShrunk(nInDataSize) == LastCommandSize(nInDataSize)
ShrinkOutcomes(nInDataSize, nMaxOutDataSize, bRaw) ==
    LET sizes == { n + (IF bRaw THEN 2 ELSE 0) :
                     n \in {SmallestShrunk(nInDataSize), LargestShrunk(nInDataSize)} }
    IN { [ret |-> n, cause |-> "written"] : n \in { m \in sizes : m <= nMaxOutDataSize } }
       \cup { [ret |-> -1, cause |-> "incompressible"] :
                 n \in { m \in sizes : m > nMaxOutDataSize } }
       \cup { [ret |-> -1, cause |-> "failed"] }

\* lz4ultra_compress_inmem about to run; s holds its arguments and locals,
\* stores the writes into pOutBuffer as [what, at, size] in the order made,
\* blocks what became of each block
InmemCall(nInputSize, nMaxOutBufferSize, bRaw, bIndependent, nBlockMaxCode, bNoMemory) ==
    [nInputSize |-> nInputSize, nMaxOutBufferSize |-> nMaxOutBufferSize,
     bRaw |-> bRaw, bIndependent |-> bIndependent, nRequestedCode |-> nBlockMaxCode,
     bNoMemory |-> bNoMemory, nBlockMaxCode |-> nBlockMaxCode, nBlockMaxSize |-> 0,
     nOriginalSize |-> <<0, 0>>, nCompressedSize |-> <<0, 0>>,
     nPreviousBlockSize |-> 0, nNumBlocks |-> 0, nError |-> 0,
     stores |-> <<>>, pHeader |-> <<>>, blocks |-> <<>>, ret |-> <<0, 0>>]

Stored(stores, what, at, size) ==
    IF size > 0 THEN Append(stores, [what |-> what, at |-> at, size |-> size]) ELSE stores

\* up to the loop: block size, context, stream header
InmemStart(s) ==
    LET nBlockMaxCode == EffectiveBlockMaxCode(s.nInputSize, s.nRequestedCode)
        s1 == [s EXCEPT !.nBlockMaxCode = nBlockMaxCode,
                        !.nBlockMaxSize = BlockMaxSizeOf(nBlockMaxCode)]
        h == lz4ultra_encode_header(ToInt(WSub(s.nMaxOutBufferSize, s.nCompressedSize)),
                                    nBlockMaxCode, IF s.bIndependent THEN 1 ELSE 0)
        nHeaderSize == h.ret
    IN IF s.bNoMemory THEN [s1 EXCEPT !.ret = Wide(LZ4ULTRA_ERROR_MEMORY)]
       ELSE IF s.bRaw THEN s1
       ELSE IF nHeaderSize < 0 THEN [s1 EXCEPT !.nError = LZ4ULTRA_ERROR_COMPRESSION]
       ELSE [s1 EXCEPT !.nCompressedSize = WAdd(@, Wide(nHeaderSize)),
                       !.stores = Stored(@, "header", s.nCompressedSize, nHeaderSize),
                       !.pHeader = h.pFrameData]

InmemInDataSize(s) ==
    LET nRest == ToInt(WSub(s.nInputSize, s.nOriginalSize))
    IN IF nRest > s.nBlockMaxSize THEN s.nBlockMaxSize ELSE nRest

InmemOutDataEndNoFrame(s) ==
    LET nRoom == ToInt(WSub(s.nMaxOutBufferSize, s.nCompressedSize))
    IN IF nRoom > s.nBlockMaxSize THEN s.nBlockMaxSize ELSE nRoom
InmemOutDataEnd(s) ==
    LET nRoom == ToInt(WSub(WSub(WSub(s.nMaxOutBufferSize, Wide(LZ4ULTRA_FRAME_SIZE)),
                                 Wide(LZ4ULTRA_FRAME_SIZE)),
                            s.nCompressedSize))
    IN IF nRoom > s.nBlockMaxSize THEN s.nBlockMaxSize ELSE nRoom

\* one turn of the loop; shrunk is what lz4ultra_compressor_shrink_block
\* returned.  A block that did not fit was written as far as it fitted.
InmemTurn(s, shrunk) ==
    LET nInDataSize == InmemInDataSize(s)
        nOutDataEnd == InmemOutDataEnd(s)
        nRoom == ToInt(WSub(s.nMaxOutBufferSize, s.nCompressedSize))
        pBlock == WAdd(s.nCompressedSize, Wide(LZ4ULTRA_FRAME_SIZE))
        became(framed) == [nInDataSize |-> nInDataSize,
                           nPreviousBlockSize |-> s.nPreviousBlockSize,
                           nMaxOutDataSize |-> nOutDataEnd,
                           shrunk |-> shrunk, framed |-> framed]
        s1 == [s EXCEPT !.stores =
                  IF shrunk.ret >= 0 THEN Stored(@, "block", pBlock, shrunk.ret)
                  ELSE IF shrunk.cause = "incompressible"
                  THEN Stored(@, "partial", pBlock, nOutDataEnd)
                  ELSE @]
        after(t, framed) ==
            [t EXCEPT !.nPreviousBlockSize = IF ~s.bIndependent
                                             THEN Min(nInDataSize, HISTORY_SIZE) ELSE 0,
                      !.nNumBlocks = @ + 1,
                      !.blocks = Append(@, became(framed))]
    IN IF nInDataSize <= 0 THEN s
       ELSE IF s.bRaw /\ (s.nNumBlocks # 0 \/ nInDataSize > 4194304)
       THEN [s EXCEPT !.nError = LZ4ULTRA_ERROR_RAW_TOOLARGE]
       ELSE IF shrunk.ret >= 0
       THEN LET nFrameHeaderSize ==
                    IF ~s.bRaw
                    THEN lz4ultra_encode_compressed_block_frame(nRoom, shrunk.ret).ret
                    ELSE 0
            IN IF nFrameHeaderSize < 0
               THEN after([s1 EXCEPT !.nError = LZ4ULTRA_ERROR_COMPRESSION], "none")
               ELSE after([s1 EXCEPT
                              !.stores = Stored(@, "frame", s.nCompressedSize,
                                                nFrameHeaderSize),
                              !.nOriginalSize = WAdd(@, Wide(nInDataSize)),
                              !.nCompressedSize =
                                  WAdd(@, Wide(nFrameHeaderSize + shrunk.ret))],
                          "compressed")
       ELSE IF s.bRaw
       THEN [s1 EXCEPT !.nError = LZ4ULTRA_ERROR_RAW_UNCOMPRESSED,
                       !.blocks = Append(@, became("none"))]
       ELSE LET nFrameHeaderSize ==
                    lz4ultra_encode_uncompressed_block_frame(nRoom, nInDataSize).ret
                s2 == [s1 EXCEPT !.stores = Stored(@, "frame", s.nCompressedSize,
                                                   nFrameHeaderSize)]
            IN IF nFrameHeaderSize < 0
               THEN after([s1 EXCEPT !.nError = LZ4ULTRA_ERROR_COMPRESSION], "none")
               ELSE IF SizeLess(WSub(s.nMaxOutBufferSize,
                                     WAdd(s.nCompressedSize, Wide(nFrameHeaderSize))),
                                Wide(nInDataSize))
               THEN after([s2 EXCEPT !.nError = LZ4ULTRA_ERROR_DST], "none")
               ELSE after([s2 EXCEPT
                              !.stores = Stored(@, "stored", pBlock, nInDataSize),
                              !.nOriginalSize = WAdd(@, Wide(nInDataSize)),
                              !.nCompressedSize =
                                  WAdd(@, Wide(nFrameHeaderSize + nInDataSize))],
                          "stored")

\* after the loop: footer and return value
InmemEnd(s) ==
    LET nFooterSize ==
            IF s.bRaw THEN 0
            ELSE lz4ultra_encode_footer_frame(
                     ToInt(WSub(s.nMaxOutBufferSize, s.nCompressedSize))).ret
        nError == IF nFooterSize < 0 THEN LZ4ULTRA_ERROR_COMPRESSION ELSE s.nError
        nCompressedSize == IF nError = 0 THEN WAdd(s.nCompressedSize, Wide(nFooterSize))
                           ELSE s.nCompressedSize
    IN [s EXCEPT !.nError = nError,
                 !.stores = Stored(@, "footer", s.nCompressedSize, nFooterSize),
                 !.nCompressedSize = nCompressedSize,
                 !.ret = IF nError # 0 THEN Wide(-1) ELSE nCompressedSize]

(***************************************************************************)
(* Frames on streams: lz4ultra_compress_stream.  The input stream holds    *)
(* nInputSize bytes; a byte of pInData is named by where it came from:     *)
(* <<"in", k>> is byte k of the input stream, <<"dictionary", k>> byte k   *)
(* of the dictionary, <<"zero", 0>> a byte of the memset.                  *)
(***************************************************************************)
StreamCall(nInputSize, bRaw, bIndependent, nBlockMaxCode, nDictionaryDataSize, bNoMemory, nFailWrite) ==
    [nInputSize |-> nInputSize, bRaw |-> bRaw, bIndependent |-> bIndependent,
     nRequestedCode |-> nBlockMaxCode, nDictionaryDataSize |-> nDictionaryDataSize,
     nDictionaryGiven |-> nDictionaryDataSize,
     bNoMemory |-> bNoMemory, nFailWrite |-> nFailWrite,
     nBlockMaxCode |-> nBlockMaxCode, nBlockMaxSize |-> 0, nPreloadedInDataSize |-> 0,
     nOriginalSize |-> 0, nCompressedSize |-> 0, nPreviousBlockSize |-> 0,
     nNumBlocks |-> 0, nError |-> 0,
     nRead |-> 0, bEof |-> FALSE, bWholeAtOnce |-> FALSE,
     reads |-> <<>>, history |-> <<>>,
     nWrites |-> 0, bWriteFailed |-> FALSE, out |-> <<>>, pHeader |-> <<>>,
     blocks |-> <<>>, ret |-> 0, pCompressedSize |-> 0]

\* what pInStream->read can return when asked for size bytes: all there is
\* up to size, or fewer
ReadSizes(s, size) ==
    LET nAll == Min(size, s.nInputSize - s.nRead)
    IN {nAll} \cup { n \in {1000} : n < nAll }
\* the stream after a read of size bytes that returned n, stored at the
\* start of the block area; the end of the stream is flagged once a read
\* asked for more than was left
AfterRead(s, size, n) ==
    [s EXCEPT !.nRead = @ + n,
              !.bEof = @ \/ (n < size /\ s.nRead + n = s.nInputSize),
              !.reads = IF n > 0 THEN Append(@, [off |-> s.nRead, size |-> n]) ELSE @]

\* the byte at p in the block area after the reads up to the i-th
RECURSIVE ByteAt(_, _, _)
ByteAt(reads, i, p) ==
    IF i = 0 THEN <<"zero", 0>>
    ELSE IF reads[i].size > p THEN <<"in", reads[i].off + p>>
    ELSE ByteAt(reads, i - 1, p)

\* pOutStream->write: the nFailWrite-th write that has bytes to write fails
StreamWrite(s, what, size, data) ==
    IF size > 0 /\ s.nWrites + 1 = s.nFailWrite
    THEN [s EXCEPT !.nWrites = @ + 1, !.bWriteFailed = TRUE]
    ELSE IF size > 0
    THEN [s EXCEPT !.nWrites = @ + 1, !.bWriteFailed = FALSE,
                   !.out = Append(@, [what |-> what, size |-> size, data |-> data])]
    ELSE [s EXCEPT !.bWriteFailed = FALSE]

\* up to the loop; n is what the first read returned
StreamStart(s, n) ==
    LET nAsked == BlockMaxSizeOf(s.nRequestedCode)
        nBlockMaxCode == IF n < nAsked THEN ReduceBlockMaxCode(Wide(n), s.nRequestedCode)
                         ELSE s.nRequestedCode
        s1 == [AfterRead(s, nAsked, n) EXCEPT
                  !.nBlockMaxCode = nBlockMaxCode,
                  !.nBlockMaxSize = BlockMaxSizeOf(nBlockMaxCode),
                  !.nPreloadedInDataSize = n,
                  !.bWholeAtOnce = (n = s.nInputSize)]
        h == lz4ultra_encode_header(16, nBlockMaxCode, IF s.bIndependent THEN 1 ELSE 0)
        s2 == StreamWrite(s1, "header", h.ret, h.pFrameData)
    IN IF s.bNoMemory THEN [s EXCEPT !.ret = LZ4ULTRA_ERROR_MEMORY]
       ELSE IF s.bRaw THEN s1
       ELSE IF h.ret < 0 THEN [s1 EXCEPT !.nError = LZ4ULTRA_ERROR_COMPRESSION]
       ELSE [s2 EXCEPT !.nError = IF s2.bWriteFailed THEN LZ4ULTRA_ERROR_DST ELSE 0,
                       !.nCompressedSize = @ + h.ret,
                       !.pHeader = h.pFrameData]

\* the start of a turn of the loop: the bytes placed in front of the block
\* area (the tail of the block area, or the dictionary), then the block,
\* preloaded or read now (n is what that read returns)
StreamLoad(s, n) ==
    LET bCarry == s.nPreviousBlockSize # 0
        bDictionary == ~bCarry /\ s.nDictionaryDataSize # 0
        nPrevious == IF bDictionary THEN s.nDictionaryDataSize ELSE s.nPreviousBlockSize
        s1 == [s EXCEPT
                 !.nPreviousBlockSize = nPrevious,
                 !.history =
                    IF bCarry
                    THEN [first |-> ByteAt(s.reads, Len(s.reads),
                                           s.nBlockMaxSize - nPrevious),
                          last |-> ByteAt(s.reads, Len(s.reads), s.nBlockMaxSize - 1)]
                    ELSE IF bDictionary
                    THEN [first |-> <<"dictionary", 0>>,
                          last |-> <<"dictionary", nPrevious - 1>>]
                    ELSE @]
    IN IF s.nPreloadedInDataSize > 0
       THEN [s1 EXCEPT !.nPreloadedInDataSize = 0]
       ELSE AfterRead(s1, s.nBlockMaxSize, n)
StreamInDataSize(s, n) ==
    IF s.nPreloadedInDataSize > 0 THEN s.nPreloadedInDataSize ELSE n
StreamMaxOutDataSize(s, n) ==
    IF StreamInDataSize(s, n) >= s.nBlockMaxSize THEN s.nBlockMaxSize
    ELSE StreamInDataSize(s, n)

\* one turn of the loop; n is what the read of this turn returns when
\* there is one, shrunk what lz4ultra_compressor_shrink_block returned
StreamTurn(s, n, shrunk) ==
    LET nInDataSize == StreamInDataSize(s, n)
        s1 == StreamLoad(s, n)
        s2 == [s1 EXCEPT !.nDictionaryDataSize = IF ~s.bIndependent THEN 0 ELSE @]
        became(framed) == [nInDataSize |-> nInDataSize,
                           off |-> s1.reads[Len(s1.reads)].off,
                           nPreviousBlockSize |-> s1.nPreviousBlockSize,
                           history |-> s1.history,
                           nMaxOutDataSize |-> StreamMaxOutDataSize(s, n),
                           shrunk |-> shrunk, framed |-> framed]
        after(t, framed) ==
            [t EXCEPT !.nPreviousBlockSize = IF ~s.bIndependent
                                             THEN Min(nInDataSize, HISTORY_SIZE) ELSE 0,
                      !.nNumBlocks = @ + 1,
                      !.blocks = Append(@, became(framed))]
        \* the block's bytes go out after its prefix
        withData(t, what, nFrameHeaderSize, nDataSize) ==
            LET t1 == StreamWrite(t, what, nDataSize, <<>>)
            IN IF t1.bWriteFailed THEN [t1 EXCEPT !.nError = LZ4ULTRA_ERROR_DST]
               ELSE [t1 EXCEPT !.nOriginalSize = @ + nInDataSize,
                               !.nCompressedSize = @ + nFrameHeaderSize + nDataSize]
        framedAs(f, what, nDataSize, framed) ==
            IF f.ret < 0
            THEN after([s2 EXCEPT !.nError = LZ4ULTRA_ERROR_COMPRESSION], "none")
            ELSE LET t == StreamWrite(s2, "frame", f.ret, f.pFrameData)
                 IN IF t.bWriteFailed
                    THEN after([t EXCEPT !.nError = LZ4ULTRA_ERROR_DST], "none")
                    ELSE LET t2 == withData(t, what, f.ret, nDataSize)
                         IN after(t2, IF t2.nError = 0 THEN framed ELSE "none")
    IN IF nInDataSize <= 0 THEN s1
       ELSE IF s.bRaw /\ (s.nNumBlocks # 0 \/ nInDataSize > 4194304)
       THEN [s1 EXCEPT !.nError = LZ4ULTRA_ERROR_RAW_TOOLARGE]
       ELSE IF shrunk.ret >= 0
       THEN IF s.bRaw
            THEN LET t2 == withData(s2, "block", 0, shrunk.ret)
                 IN after(t2, IF t2.nError = 0 THEN "compressed" ELSE "none")
            ELSE framedAs(lz4ultra_encode_compressed_block_frame(16, shrunk.ret),
                          "block", shrunk.ret, "compressed")
       ELSE IF s.bRaw
       THEN [s2 EXCEPT !.nError = LZ4ULTRA_ERROR_RAW_UNCOMPRESSED,
                       !.blocks = Append(@, became("none"))]
       ELSE framedAs(lz4ultra_encode_uncompressed_block_frame(16, nInDataSize),
                     "stored", nInDataSize, "stored")

\* after the loop: footer and return value
StreamEnd(s) ==
    LET f == lz4ultra_encode_footer_frame(16)
        nFooterSize == IF s.bRaw THEN 0 ELSE f.ret
        s1 == IF nFooterSize < 0 THEN [s EXCEPT !.nError = LZ4ULTRA_ERROR_COMPRESSION]
              ELSE s
        s2 == IF s1.nError # 0 THEN s1
              ELSE LET t == StreamWrite(s1, "footer", nFooterSize,
                                        IF s.bRaw THEN <<>> ELSE f.pFrameData)
                   IN IF t.bWriteFailed THEN [t EXCEPT !.nError = LZ4ULTRA_ERROR_DST]
                      ELSE t
    IN [s2 EXCEPT !.nCompressedSize = @ + nFooterSize,
                  !.ret = s2.nError,
                  !.pCompressedSize = IF s2.nError = 0 THEN s2.nCompressedSize + nFooterSize
                                      ELSE @]

(***************************************************************************)
(* State: one compressor context and one decoder call on its output        *)
(***************************************************************************)
VARIABLES
    pc,                  \* position of the driver: what ran last
    pInWindow,           \* history followed by the block to compress
    nPreviousBlockSize,  \* bytes of history in front of the block
    nInDataSize,         \* bytes of the block
    bFavorRatio,         \* LZ4ULTRA_FLAG_FAVOR_RATIO
    bRawBlock,           \* LZ4ULTRA_FLAG_RAW_BLOCK
    nMaxOutDataSize,     \* room the caller gives the emitter
    parsed,              \* pCompressor->match as the parser left it
    match,               \* pCompressor->match
    written,             \* what lz4ultra_write_block_lz4 returned and stored
    nBlockMaxSize,       \* room the caller gives the decoder
    expanded,            \* the decoder's state on return
    pInBlock,            \* a block handed to a decoder as it came in
    pOutData,            \* the output window on entry to that decoder
    nOutDataOffset,      \* bytes of history in the output window
    decoder,             \* which block decoder ran on pInBlock
    header,              \* a frame header: the encoder's and the decoder's call
    inmem,               \* one call of lz4ultra_compress_inmem: its locals
    stream,              \* one call of lz4ultra_compress_stream: its locals
    frame,               \* a block prefix: the encoder's and the decoder's call
    cli,                 \* one run of the command-line tool
    optimizer,           \* lz4ultra_optimize_matches_lz4 on a long match, one position at a time
    reader,              \* one call of a decompressor of streams: its locals
    command              \* one command of the emitter: its lengths, its size, its bytes

blockVars == <<pInWindow, nPreviousBlockSize, nInDataSize, bFavorRatio, bRawBlock,
               nMaxOutDataSize, parsed, match, written, nBlockMaxSize, expanded>>

expandVars == <<pInBlock, pOutData, nOutDataOffset, decoder>>

\* what the compressor of one block leaves alone
outsideBlock == <<expandVars, header, inmem, stream, frame, cli, optimizer, reader,
                  command>>

vars == <<pc, blockVars, outsideBlock>>

NotWritten == [ret |-> Running, out |-> <<>>, num_commands |-> 0, cmds |-> <<>>]
NotExpanded == ExpandStart(<<>>, 0)

\* no frame header was built and lz4ultra_compress_inmem was not called
NoHeader == [pFrameData |-> <<>>, nMaxFrameDataSize |-> 0, nBlockMaxCode |-> 0,
             nIsIndependentBlocks |-> 0, nPerturbed |-> 0, encoded |-> 0,
             decoded |-> [ret |-> 0, nBlockMaxCode |-> 0, nIsIndependentBlocks |-> 0]]
NoCall == [nInputSize |-> <<0, 0>>]
NoStream == [nInputSize |-> 0]
NoFrame == [nBlockDataSize |-> 0]
NoRun == [argv |-> <<>>]
NoParse == [nEndOffset |-> 0]
NoReader == [nInputSize |-> 0]
NoCommand == [nCommandSize |-> 0]
\* the frame layer and the tool are not part of a run, but for the parts
\* named in S
Quiet(S) ==
    /\ "header" \in S \/ header = NoHeader
    /\ "inmem" \in S \/ inmem = NoCall
    /\ "stream" \in S \/ stream = NoStream
    /\ "frame" \in S \/ frame = NoFrame
    /\ "cli" \in S \/ cli = NoRun
    /\ "optimizer" \in S \/ optimizer = NoParse
    /\ "reader" \in S \/ reader = NoReader
    /\ "command" \in S \/ command = NoCommand
\* a step leaves them alone, but for the parts named in S
Keep(S) ==
    /\ IF "header" \in S THEN TRUE ELSE header' = header
    /\ IF "inmem" \in S THEN TRUE ELSE inmem' = inmem
    /\ IF "stream" \in S THEN TRUE ELSE stream' = stream
    /\ IF "frame" \in S THEN TRUE ELSE frame' = frame
    /\ IF "cli" \in S THEN TRUE ELSE cli' = cli
    /\ IF "optimizer" \in S THEN TRUE ELSE optimizer' = optimizer
    /\ IF "reader" \in S THEN TRUE ELSE reader' = reader
    /\ IF "command" \in S THEN TRUE ELSE command' = command

\* no block was handed in from outside
IdleExpand ==
    /\ pInBlock = PlainBlock(<<>>)
    /\ pOutData = <<>>
    /\ nOutDataOffset = 0
    /\ decoder = "none"

\* a window of N bytes: nDistinct bytes that occur nowhere else, then a
\* pattern of period nPeriod, with the byte at nOdd replaced by a unique one
\* (nOdd = N: none replaced)
PatternWindow(N, nDistinct, nPeriod, nOdd) ==
    Array([i \in 0..(N - 1) |->
              IF i = nOdd THEN 200
              ELSE IF i < nDistinct THEN 100 + i
              ELSE IF ((i - nDistinct) % nPeriod) = nPeriod - 1 THEN 1 ELSE 0])

\* a window of bytes that differ from each other, but for nLen bytes at
\* nBefore that repeat the first bytes of the window; nAfter bytes follow
RepeatWindow(nBefore, nLen, nAfter) ==
    Array([i \in 0..(nBefore + nLen + nAfter - 1) |->
              IF i >= nBefore /\ i < nBefore + nLen THEN 100 + (i - nBefore)
              ELSE 100 + i])

\* the bytes a b c, over and over
PeriodicWindow(N) == Array([i \in 0..(N - 1) |-> 97 + (i % 3)])

Windows ==
    { PatternWindow(N, d, p, q) :
        N \in 1..MaxWindow, d \in {0, 16}, p \in 1..3, q \in {4, 9, MaxWindow} }
    \cup { PeriodicWindow(N) : N \in {12, 18} }
    \cup { RepeatWindow(b, l, a) :
             b \in {14, 15}, l \in {4, 5}, a \in {14, MaxAfter} }

\* the driver hands a window, a split into history and block, and the flags
Load(W, nPrev, ratio, raw, nMax) ==
    /\ pInWindow = W
    /\ nPreviousBlockSize = nPrev
    /\ nInDataSize = SizeOf(W) - nPrev
    /\ bFavorRatio = ratio
    /\ bRawBlock = raw
    /\ nMaxOutDataSize = nMax
    /\ nBlockMaxSize = 0
    /\ parsed = Array([p \in DOMAIN W |-> NoMatch])
    /\ match = Array([p \in DOMAIN W |-> NoMatch])
    /\ written = NotWritten
    /\ expanded = NotExpanded
    /\ pc = "loaded"

\* the room the callers give the emitter: the block's size (streaming), more
\* or less than it (in memory, what is left of the output buffer)
MaxOutSizes(nSize) == {6, nSize, nSize + 8}

InitWindow ==
    \E W \in Windows, nPrev \in {0, MaxHistory}, ratio \in BOOLEAN, raw \in BOOLEAN :
        /\ nPrev < SizeOf(W)
        /\ \E nMax \in MaxOutSizes(SizeOf(W) - nPrev) :
            /\ raw => nMax # 6
            /\ Load(W, nPrev, ratio, raw, nMax)

\* the matches lz4ultra_find_all_matches records for a window of N equal
\* bytes: every position from 2 to N - LAST_MATCH_OFFSET holds a match with
\* the byte before it, as long as the run less its last 5 bytes, LCP_MAX at
\* most
RunMatches(N) ==
    Array([i \in 0..(N - 1) |->
              IF i >= 2 /\ i <= N - LAST_MATCH_OFFSET
              THEN [length |-> Min(LCP_MAX, (N - LAST_LITERALS) - i), offset |-> 1]
              ELSE NoMatch])

\* the parse lz4ultra_optimize_matches_lz4 leaves for this window: the
\* parser's loop on the positions whose match is no longer than the lengths
\* the fast path cuts and the two commands that follow take; every longer
\* match is kept whole
RunParse(N, ratio) ==
    OptimizeDownTo(RunMatches(N),
                   N - LAST_LITERALS - (4 * (MATCH_RUN_LEN + MIN_MATCH_SIZE)), N, ratio)

\* a run of equal bytes longer than the longest match the index can hold
\* enters with its parse
InitRun ==
    \E nTail \in {0, MaxTail}, ratio \in BOOLEAN :
        LET N == LCP_MAX + 7 + (nTail * 3)
        IN /\ pInWindow = Array([i \in 0..(N - 1) |-> 0])
           /\ nPreviousBlockSize = 0
           /\ nInDataSize = N
           /\ bFavorRatio = ratio
           /\ bRawBlock = FALSE
           /\ nMaxOutDataSize = N
           /\ nBlockMaxSize = 0
           /\ parsed = RunParse(N, ratio)
           /\ match = parsed
           /\ written = NotWritten
           /\ expanded = NotExpanded
           /\ pc = "parsed"

InitBlock == (InitWindow \/ InitRun) /\ IdleExpand /\ Quiet({})

\* A window z a..a X d a....a X y: 18 bytes a, then a run of a 36 bytes
\* longer than the longest match the index can hold, each followed by the
\* same 10 bytes X; z, d and the 20 bytes of y are found nowhere else
FusedRun == [first |-> 30, last |-> 30 + LCP_MAX + 35]
FusedWindow ==
    Array([i \in 0..(FusedRun.last + 30) |->
              IF i = 0 THEN 250
              ELSE IF i <= 18 \/ (i >= FusedRun.first /\ i <= FusedRun.last) THEN 0
              ELSE IF i <= 28 THEN 100 + (i - 19)
              ELSE IF i = 29 THEN 251
              ELSE IF i <= FusedRun.last + 10 THEN 100 + (i - (FusedRun.last + 1))
              ELSE 200 + (i - (FusedRun.last + 11))])

\* the matches lz4ultra_find_all_matches records for this window: inside a
\* run the byte before, as long as what is left of the run, LCP_MAX at most;
\* at the first byte of the long run and for its last 18 bytes, where the
\* 10 bytes that follow count, the short run
FusedMatches ==
    Array([i \in DOMAIN FusedWindow |->
              IF i >= 2 /\ 19 - i >= MIN_MATCH_SIZE
              THEN [length |-> 19 - i, offset |-> 1]
              ELSE IF i = FusedRun.first THEN [length |-> 18, offset |-> i - 1]
              ELSE IF i > FusedRun.first /\ i <= FusedRun.last - 18
              THEN [length |-> Min(LCP_MAX, (FusedRun.last + 1) - i), offset |-> 1]
              ELSE IF i > FusedRun.last - 18
                      /\ (FusedRun.last + 11) - i >= MIN_MATCH_SIZE
              THEN [length |-> (FusedRun.last + 11) - i,
                    offset |-> FusedRun.last - 18]
              ELSE NoMatch])

\* the parse lz4ultra_optimize_matches_lz4 leaves for it in speed mode: the
\* parser's loop down to the last position whose match has
\* LEAVE_ALONE_MATCH_SIZE bytes; the matches before it are kept whole
FusedParse ==
    OptimizeDownTo(FusedMatches, (FusedRun.last + 2) - LEAVE_ALONE_MATCH_SIZE,
                   SizeOf(FusedWindow), FALSE)

\* the window enters with its parse
InitFused ==
    /\ pInWindow = FusedWindow
    /\ nPreviousBlockSize = 0
    /\ nInDataSize = SizeOf(FusedWindow)
    /\ bFavorRatio = FALSE
    /\ bRawBlock = FALSE
    /\ nMaxOutDataSize = SizeOf(FusedWindow)
    /\ nBlockMaxSize = 0
    /\ parsed = FusedParse
    /\ match = parsed
    /\ written = NotWritten
    /\ expanded = NotExpanded
    /\ pc = "parsed"

\* lz4ultra_compressor_shrink_block up to the parser: the index, the finder
\* and lz4ultra_optimize_matches_lz4
ParseBlock ==
    /\ pc = "loaded"
    /\ parsed' = lz4ultra_optimize_matches_lz4(
                     FoundMatches(pInWindow, nPreviousBlockSize, nInDataSize),
                     nPreviousBlockSize, nPreviousBlockSize + nInDataSize, bFavorRatio)
    /\ match' = parsed'
    /\ pc' = "parsed"
    /\ UNCHANGED <<pInWindow, nPreviousBlockSize, nInDataSize, bFavorRatio, bRawBlock,
                   nMaxOutDataSize, written, nBlockMaxSize, expanded, outsideBlock>>

\* the rest of lz4ultra_optimize_and_write_block: the peephole pass and the
\* emitter
WriteBlock ==
    /\ pc = "parsed"
    /\ match' = lz4ultra_optimize_command_count_lz4(pInWindow, match, nPreviousBlockSize,
                                                    nPreviousBlockSize + nInDataSize)
    /\ written' = lz4ultra_write_block_lz4(pInWindow, match', nPreviousBlockSize,
                      nPreviousBlockSize + nInDataSize, bRawBlock, nMaxOutDataSize)
    /\ pc' = "shrunk"
    /\ UNCHANGED <<pInWindow, nPreviousBlockSize, nInDataSize, bFavorRatio, bRawBlock,
                   nMaxOutDataSize, parsed, nBlockMaxSize, expanded, outsideBlock>>

\* the output window the decoder is given: the history, then room for the block
OutputWindow(W, nPrev, nRoom) ==
    Array([p \in 0..(nPrev + nRoom - 1) |-> IF p < nPrev THEN W[p] ELSE Undef])

\* lz4ultra_decompressor_expand_block_lz4 on the block just written, with
\* room for the block exactly or for a larger one
ExpandBlock ==
    /\ pc = "shrunk"
    /\ written.ret >= 0
    /\ ~bRawBlock
    /\ \E nRoom \in {nInDataSize, nInDataSize + 18} :
        /\ nBlockMaxSize' = nRoom
        /\ expanded' = lz4ultra_decompressor_expand_block_lz4(PlainBlock(written.out),
                           OutputWindow(pInWindow, nPreviousBlockSize, nRoom),
                           nPreviousBlockSize, nRoom)
    /\ pc' = "expanded"
    /\ UNCHANGED <<pInWindow, nPreviousBlockSize, nInDataSize, bFavorRatio, bRawBlock,
                   nMaxOutDataSize, parsed, match, written, outsideBlock>>

NextBlock == ParseBlock \/ WriteBlock \/ ExpandBlock

SpecBlock == InitBlock /\ [][NextBlock]_vars

\* the patterned windows and the window whose parse holds two matches with
\* different offsets that the peephole pass joins
InitPeephole == (InitWindow \/ InitFused) /\ IdleExpand /\ Quiet({})

SpecPeephole == InitPeephole /\ [][NextBlock]_vars

(***************************************************************************)
(* The compressor on windows over two bytes, where nearly every position   *)
(* has a match and the parser has many ways to choose                      *)
(***************************************************************************)
MixedBytes ==
    <<1, 1, 1, 1, 0, 0, 0, 1, 0, 0, 1, 1, 1, 1, 1, 1, 0, 1, 1, 1, 1, 1, 1, 0, 0, 1, 1,
      0, 1, 0, 0, 0, 0, 0, 1, 1, 1, 0, 0, 1, 0, 0, 0, 0, 1, 1, 0, 1, 0, 0, 0, 0, 0, 1,
      0, 1, 0, 1, 0, 0, 0, 1, 0, 1, 1, 0, 0, 0, 1>>

\* the first N of these bytes as a window
MixedWindow(N) == Array([i \in 0..(N - 1) |-> MixedBytes[i + 1]])

InitParse ==
    /\ \E N \in 13..MaxMixed, nPrev \in 0..MaxHistory, ratio \in BOOLEAN :
        \E nMax \in MaxOutSizes(N - nPrev) :
            Load(MixedWindow(N), nPrev, ratio, FALSE, nMax)
    /\ IdleExpand
    /\ Quiet({})

SpecParse == InitParse /\ [][NextBlock]_vars

(***************************************************************************)
(* A block decoder on a block that may be corrupt                          *)
(***************************************************************************)
\* the compressor is not part of these runs
IdleBlock ==
    /\ pInWindow = <<>>
    /\ nPreviousBlockSize = 0
    /\ nInDataSize = 0
    /\ bFavorRatio = FALSE
    /\ bRawBlock = FALSE
    /\ nMaxOutDataSize = 0
    /\ parsed = <<>>
    /\ match = <<>>
    /\ written = NotWritten

\* bytes that matter to the format: tokens with empty, short and extended
\* lengths, small offsets, length bytes that end or go on
BlockBytes == {0, 1, 8, 16, 240, 255}

RECURSIVE SeqsUpTo(_, _)
SeqsUpTo(S, n) ==
    IF n = 0 THEN {<<>>}
    ELSE LET shorter == SeqsUpTo(S, n - 1)
         IN shorter \cup {Append(q, x) : q \in shorter, x \in S}

\* a well-formed block of four commands: 8 literals and a match of 4 at
\* offset 8; one literal and a match of 39 at offset 1; a match of 22 at
\* offset 16; 17 literals
SoundBlock ==
    <<128>> \o [j \in 1..8 |-> 60 + j] \o <<8, 0>>
    \o <<31, 70, 1, 0, 20>>
    \o <<15, 16, 0, 3>>
    \o <<240, 2>> \o [j \in 1..17 |-> 80 + j]
SoundSize == 12 + 40 + 22 + 17

\* the block with the byte at p replaced by x
Perturbed(bytes, p, x) == [bytes EXCEPT ![p] = x]

\* the shortest run of bytes 255 after which a length of 15 no longer fits an
\* int, and the shortest after which it no longer fits an unsigned int
OverflowRun == ((2147483647 - 15) \div 255) + 1
UnsignedWrapRun == (2 * OverflowRun) - 1

\* blocks with a long run of one byte after a token, or after a token and an
\* offset
LongBlocks ==
    { Block(h, f, n, t) :
        h \in {<<240>>, <<15, 1, 0>>, <<31, 7, 1, 0>>, <<16, 7>>},
        f \in {0, 255},
        n \in {20, OverflowRun, UnsignedWrapRun},
        t \in {<<>>, <<3>>, <<0>> \o [j \in 1..19 |-> 7]} }

CorruptBlocks ==
    { PlainBlock(q) : q \in SeqsUpTo(BlockBytes, MaxBlockLen) }
    \cup { PlainBlock(Perturbed(SoundBlock, p, x)) :
             p \in 1..Len(SoundBlock), x \in BlockBytes }
    \cup { PlainBlock(SubSeq(SoundBlock, 1, n)) : n \in 1..Len(SoundBlock) }
    \cup LongBlocks

InitExpand ==
    /\ IdleBlock
    /\ Quiet({})
    /\ pInBlock \in CorruptBlocks
    /\ nOutDataOffset \in {0, 9}
    /\ nBlockMaxSize \in {0, 3, 40, SoundSize, SoundSize + 20}
    /\ pOutData = Array([p \in 0..(nOutDataOffset + nBlockMaxSize - 1) |->
                            IF p < nOutDataOffset THEN 50 + p ELSE Undef])
    /\ decoder = "none"
    /\ expanded = NotExpanded
    /\ pc = "received"

ExpandWithFastPaths ==
    /\ pc = "received"
    /\ expanded' = lz4ultra_decompressor_expand_block_lz4(pInBlock, pOutData,
                       nOutDataOffset, nBlockMaxSize)
    /\ decoder' = "lz4ultra_decompressor_expand_block_lz4"
    /\ pc' = "decoded"
    /\ UNCHANGED <<pInWindow, nPreviousBlockSize, nInDataSize, bFavorRatio, bRawBlock,
                   nMaxOutDataSize, parsed, match, written, nBlockMaxSize,
                   pInBlock, pOutData, nOutDataOffset, header, inmem, stream, frame,
                   cli, optimizer, reader, command>>

ExpandWithTwoLoops ==
    /\ pc = "received"
    /\ expanded' = lz4ultra_expand_block(pInBlock, pOutData, nOutDataOffset,
                                         nBlockMaxSize)
    /\ decoder' = "lz4ultra_expand_block"
    /\ pc' = "decoded"
    /\ UNCHANGED <<pInWindow, nPreviousBlockSize, nInDataSize, bFavorRatio, bRawBlock,
                   nMaxOutDataSize, parsed, match, written, nBlockMaxSize,
                   pInBlock, pOutData, nOutDataOffset, header, inmem, stream, frame,
                   cli, optimizer, reader, command>>

NextExpand == ExpandWithFastPaths \/ ExpandWithTwoLoops

SpecExpand == InitExpand /\ [][NextExpand]_vars

\* C2: whatever bytes a block decoder is given as a block and whatever room
\* it is given, it returns -1 or a size from 0 to nBlockMaxSize, stores only
\* inside the room, loads block bytes only inside the block and never copies
\* a match from outside the output window.
CorruptionSafe ==
    pc = "decoded" =>
        /\ expanded.ret = -1 \/ (expanded.ret >= 0 /\ expanded.ret <= nBlockMaxSize)
        /\ ~expanded.wrOut
        /\ ~expanded.rdIn
        /\ ~expanded.rdOut

(***************************************************************************)
(* Properties of one block                                                 *)
(***************************************************************************)
\* the block was compressed, whether or not it was expanded since
Shrunk == pc \in {"shrunk", "expanded"}

TrailingLiterals ==
    LET nEndOffset == nPreviousBlockSize + nInDataSize
        nTail == Min(5, nInDataSize)
        nOutEnd == IF bRawBlock THEN Len(written.out) - 2 ELSE Len(written.out)
    IN /\ \A k \in 1..Len(written.cmds) :
              written.cmds[k][1] + written.cmds[k][3] <= nEndOffset - 5
       /\ (Shrunk /\ written.ret >= 0) =>
              \A j \in 1..nTail : written.out[nOutEnd - nTail + j]
                                     = pInWindow[nEndOffset - nTail + j - 1]

\* a match that ends right before the last 5 bytes was written, as was a
\* match the peephole pass fused
TrailingLiteralsReached ==
    /\ Shrunk
    /\ written.ret >= 0
    /\ \E k \in 1..Len(written.cmds) :
           /\ written.cmds[k][1] + written.cmds[k][3]
                  = nPreviousBlockSize + nInDataSize - 5
           /\ written.cmds[k][3] > LCP_MAX

\* C5: the block emitted for the parse after the peephole pass is no larger,
\* and has no more commands, than the block emitted for the parse before it
PeepholeNonExpansion ==
    Shrunk =>
        LET nEndOffset == nPreviousBlockSize + nInDataSize
            before == lz4ultra_write_block_lz4(pInWindow, parsed, nPreviousBlockSize,
                                               nEndOffset, FALSE, 2 * nEndOffset + 16)
            after == lz4ultra_write_block_lz4(pInWindow, match, nPreviousBlockSize,
                                              nEndOffset, FALSE, 2 * nEndOffset + 16)
        IN /\ before.ret > 0
           /\ after.ret > 0
           /\ after.ret <= before.ret
           /\ after.num_commands <= before.num_commands

\* the pass demoted a match between two runs of literals
PeepholeDemoted ==
    /\ Shrunk
    /\ \E i \in DOMAIN parsed :
           /\ parsed[i].length >= MIN_MATCH_SIZE
           /\ match[i].length = 0
           /\ i > nPreviousBlockSize
           /\ parsed[i - 1].length = 0

SetMin(S) == CHOOSE m \in S : \A x \in S : m <= x

\* best[p], for every p from i down to nStartOffset, becomes the fewest bytes
\* of a command sequence for [p, nEndOffset) that starts a command at p and
\* uses, at each position, a literal or the offered match cut to 4 bytes or
\* more: the literals up to a position j, the match there at a length k, and
\* the best from j + k on, or literals to the end
RECURSIVE FewestLoop(_, _, _, _, _)
FewestLoop(best, offered, i, nStartOffset, nEndOffset) ==
    IF i < nStartOffset THEN best
    ELSE LET withMatch ==
                 UNION { { MatchCommandSize(j - i, k - MIN_MATCH_SIZE) + best[j + k] :
                             k \in MIN_MATCH_SIZE..offered[j].length } :
                         j \in i..(nEndOffset - 1) }
             nFewest == SetMin(withMatch \cup {LastCommandSize(nEndOffset - i)})
         IN FewestLoop([best EXCEPT ![i] = nFewest], offered, i - 1,
                       nStartOffset, nEndOffset)

FewestBytes(offered, nStartOffset, nEndOffset) ==
    FewestLoop(Array([p \in nStartOffset..nEndOffset |-> 0]), offered,
               nEndOffset - 1, nStartOffset, nEndOffset)[nStartOffset]

\* C7: the commands the parser leaves in the match array take the fewest
\* bytes of all command sequences that use, at each position, a literal or
\* the match the finder offered there, cut to any length from 4 up.
ParseMinimal ==
    pc = "parsed" =>
        LET nEndOffset == nPreviousBlockSize + nInDataSize
            offered == FoundMatches(pInWindow, nPreviousBlockSize, nInDataSize)
        IN /\ DOMAIN parsed = DOMAIN offered
           /\ lz4ultra_write_block_lz4(pInWindow, parsed, nPreviousBlockSize,
                                       nEndOffset, FALSE, (2 * nEndOffset) + 16).ret
              = FewestBytes(offered, nPreviousBlockSize, nEndOffset)

(***************************************************************************)
(* A frame header: encoded, one byte changed on the way or none, decoded   *)
(***************************************************************************)
InitHeader ==
    /\ IdleBlock
    /\ nBlockMaxSize = 0
    /\ expanded = NotExpanded
    /\ IdleExpand
    /\ Quiet({"header"})
    /\ \E nMax \in {LZ4ULTRA_MAX_HEADER_SIZE - 1, LZ4ULTRA_MAX_HEADER_SIZE, 16},
          code \in 4..7, independent \in 0..1 :
           header = [NoHeader EXCEPT !.nMaxFrameDataSize = nMax,
                                     !.nBlockMaxCode = code,
                                     !.nIsIndependentBlocks = independent]
    /\ pc = "header"

EncodeHeader ==
    /\ pc = "header"
    /\ LET r == lz4ultra_encode_header(header.nMaxFrameDataSize, header.nBlockMaxCode,
                                       header.nIsIndependentBlocks)
       IN header' = [header EXCEPT !.encoded = r.ret, !.pFrameData = r.pFrameData]
    /\ pc' = "encoded"
    /\ UNCHANGED <<blockVars, expandVars>>
    /\ Keep({"header"})

\* one byte of the header arrives with another value
PerturbHeader ==
    /\ pc = "encoded"
    /\ header.encoded = LZ4ULTRA_MAX_HEADER_SIZE
    /\ \E at \in 1..LZ4ULTRA_MAX_HEADER_SIZE, byte \in 0..255 :
        /\ byte # header.pFrameData[at]
        /\ header' = [header EXCEPT !.pFrameData[at] = byte, !.nPerturbed = at]
    /\ pc' = "perturbed"
    /\ UNCHANGED <<blockVars, expandVars>>
    /\ Keep({"header"})

\* a header written by another producer of the format arrives: magic number,
\* version and checksum in order, any block-max code that fits the four bits
ReceiveHeader ==
    /\ pc = "header"
    /\ \E code \in 0..15, independent \in 0..1 :
         LET flags == 64 + (independent * 32)
             blockMax == code * 16
         IN header' = [header EXCEPT
                         !.nBlockMaxCode = code,
                         !.nIsIndependentBlocks = independent,
                         !.encoded = LZ4ULTRA_MAX_HEADER_SIZE,
                         !.pFrameData =
                             <<4, 34, 77, 24, flags, blockMax,
                               XXH32(<<flags, blockMax>>, <<0, 0>>)[2] \div 256>>]
    /\ pc' = "received"
    /\ UNCHANGED <<blockVars, expandVars>>
    /\ Keep({"header"})

DecodeHeader ==
    /\ pc \in {"encoded", "perturbed", "received"}
    /\ header.encoded = LZ4ULTRA_MAX_HEADER_SIZE
    /\ header' = [header EXCEPT !.decoded =
                      lz4ultra_decode_header(header.pFrameData, Len(header.pFrameData),
                                             0, 0)]
    /\ pc' = "headerDecoded"
    /\ UNCHANGED <<blockVars, expandVars>>
    /\ Keep({"header"})

NextHeader == EncodeHeader \/ PerturbHeader \/ ReceiveHeader \/ DecodeHeader

SpecHeader == InitHeader /\ [][NextHeader]_vars

\* C8: the header encoder stores (XXH32 of the flags byte and the block-max
\* byte, seed 0) >> 8, cut to 8 bits, as the seventh byte, and the header
\* decoder accepts no header one byte of which was changed: it returns the
\* checksum error when the checksum byte was changed and the format error
\* when a byte of the magic number or the version was changed.
HeaderPerturbationRejected ==
    /\ (pc = "encoded" /\ header.encoded = LZ4ULTRA_MAX_HEADER_SIZE) =>
           Wide(header.pFrameData[7]) =
               Shr32(<<0, XXH32(SubSeq(header.pFrameData, 5, 6), <<0, 0>>)[2]>>, 8)
    /\ (pc = "headerDecoded" /\ header.nPerturbed # 0) =>
           /\ header.decoded.ret # LZ4ULTRA_DECODE_OK
           /\ header.nPerturbed = 7 => header.decoded.ret = LZ4ULTRA_DECODE_ERR_SUM
           /\ header.nPerturbed \in 1..4 =>
                  header.decoded.ret = LZ4ULTRA_DECODE_ERR_FORMAT
           /\ (header.nPerturbed = 5 /\ (header.pFrameData[5] \div 64) # 1) =>
                  header.decoded.ret = LZ4ULTRA_DECODE_ERR_FORMAT

\* what the claim says of the checksum byte and of the magic number alone
HeaderSumChecked ==
    /\ (pc = "encoded" /\ header.encoded = LZ4ULTRA_MAX_HEADER_SIZE) =>
           header.pFrameData[7] \in {192, 130, 119, 251, 150, 81, 223, 115}
    /\ (pc = "headerDecoded" /\ header.nPerturbed = 7) =>
           header.decoded.ret = LZ4ULTRA_DECODE_ERR_SUM
    /\ (pc = "headerDecoded" /\ header.nPerturbed \in 1..4) =>
           header.decoded.ret = LZ4ULTRA_DECODE_ERR_FORMAT
    /\ (pc = "headerDecoded" /\ header.nPerturbed = 0) =>
           header.decoded = [ret |-> LZ4ULTRA_DECODE_OK,
                             nBlockMaxCode |-> header.nBlockMaxCode,
                             nIsIndependentBlocks |-> header.nIsIndependentBlocks]
(***************************************************************************)
(* lz4ultra_compress_inmem, one turn of its loop at a time                 *)
(***************************************************************************)
InmemSizes == {0, 1, 12, 13, 65535, 65536, 65537, 131079, 262144, 262145, 1048576,
               4194304, 4194305, 2147483647}
\* output capacities: too small for anything, the input size, and around
\* the size lz4ultra_get_max_compressed_size_inmem gives
InmemCapacities(nInputSize, nBlockMaxCode) ==
    LET nMax == lz4ultra_get_max_compressed_size_inmem(nInputSize, nBlockMaxCode)
    IN { Wide(c) : c \in {0, 3, 4, 7, 8, 10, 11, 12, 15, 20} }
       \cup {nInputSize, WSub(nMax, Wide(1)), nMax, WAdd(nMax, Wide(5))}

InitInmem ==
    /\ IdleBlock
    /\ nBlockMaxSize = 0
    /\ expanded = NotExpanded
    /\ IdleExpand
    /\ Quiet({"inmem"})
    /\ \E n \in InmemSizes, code \in 4..7, raw \in BOOLEAN, independent \in BOOLEAN,
          bNoMemory \in BOOLEAN :
        /\ \E capacity \in InmemCapacities(Wide(n), code) :
               inmem = InmemCall(Wide(n), capacity, raw, independent, code, bNoMemory)
    /\ pc = "inmem"

CompressInmemStart ==
    /\ pc = "inmem"
    /\ inmem' = InmemStart(inmem)
    /\ pc' = IF inmem.bNoMemory THEN "inmemReturned" ELSE "inmemLoop"
    /\ UNCHANGED <<blockVars, expandVars>>
    /\ Keep({"inmem"})

CompressInmemBlock ==
    /\ pc = "inmemLoop"
    /\ SizeLess(inmem.nOriginalSize, inmem.nInputSize)
    /\ inmem.nError = 0
    /\ inmem.nNumBlocks < MaxInmemBlocks
    /\ \E shrunk \in ShrinkOutcomes(InmemInDataSize(inmem), InmemOutDataEnd(inmem),
                                     inmem.bRaw) :
           inmem' = InmemTurn(inmem, shrunk)
    /\ UNCHANGED <<pc, blockVars, expandVars>>
    /\ Keep({"inmem"})

CompressInmemEnd ==
    /\ pc = "inmemLoop"
    /\ ~(SizeLess(inmem.nOriginalSize, inmem.nInputSize) /\ inmem.nError = 0)
    /\ inmem' = InmemEnd(inmem)
    /\ pc' = "inmemReturned"
    /\ UNCHANGED <<blockVars, expandVars>>
    /\ Keep({"inmem"})

NextInmem == CompressInmemStart \/ CompressInmemBlock \/ CompressInmemEnd

SpecInmem == InitInmem /\ [][NextInmem]_vars

\* C9: called with exactly the capacity lz4ultra_get_max_compressed_size_inmem
\* gives for the input size and the block code, a framed (not raw)
\* lz4ultra_compress_inmem does not return -1 and returns a size no larger
\* than the capacity, whatever the blocks compress to, stored blocks and a
\* short last block included.
BoundSuffices ==
    (/\ pc = "inmemReturned"
     /\ ~inmem.bRaw
     /\ ~inmem.bNoMemory
     /\ inmem.nMaxOutBufferSize =
            lz4ultra_get_max_compressed_size_inmem(inmem.nInputSize, inmem.nRequestedCode))
    => /\ inmem.ret # Wide(-1)
       /\ ~SizeLess(inmem.nMaxOutBufferSize, inmem.ret)
\* blocks compressed one at a time, and blocks compressed by
\* lz4ultra_compress_inmem
NextCompress == NextBlock \/ NextInmem
SpecCompress == (InitBlock \/ InitInmem) /\ [][NextCompress]_vars

\* C10: whatever the input size, the flags and the capacity of the output
\* buffer, lz4ultra_compress_inmem stores only inside the buffer, and a
\* call that does not return -1 returns a size no larger than the capacity;
\* the block emitter stores nothing at or beyond nMaxOutDataSize, and what it
\* returns, when not -1, is the number of bytes it stored.
OutputInsideBuffer ==
    /\ pc \in {"inmemLoop", "inmemReturned"} =>
           \A i \in 1..Len(inmem.stores) :
               /\ ~WLess(inmem.stores[i].at, <<0, 0>>)
               /\ ~SizeLess(inmem.nMaxOutBufferSize,
                            WAdd(inmem.stores[i].at, Wide(inmem.stores[i].size)))
    /\ (pc = "inmemReturned" /\ ~inmem.bNoMemory /\ inmem.ret # Wide(-1)) =>
           ~SizeLess(inmem.nMaxOutBufferSize, inmem.ret)
    /\ Shrunk =>
           /\ Len(written.out) <= Max(nMaxOutDataSize, 0)
           /\ written.ret = -1 \/ written.ret = Len(written.out)

\* a block that did not fit was written as far as it fitted, right up to
\* the footer's four bytes, and the call returned -1
OutputRefused ==
    /\ pc = "inmemReturned"
    /\ inmem.ret = Wide(-1)
    /\ \E i \in 1..Len(inmem.stores) :
           /\ inmem.stores[i].what = "partial"
           /\ WAdd(inmem.stores[i].at, Wide(inmem.stores[i].size + LZ4ULTRA_FRAME_SIZE))
                  = inmem.nMaxOutBufferSize
(***************************************************************************)
(* The command-line tool: main, from its arguments to its exit status.     *)
(* The arguments are the commands, -c, -r, -B with a code inside and       *)
(* outside 4..7, and file names.                                           *)
(***************************************************************************)
Arguments == {"-d", "-z", "-c", "-cbench", "-dbench", "-test", "-r", "-B5", "-B9", "file"}
CommandOf == [a \in {"-d", "-z", "-cbench", "-dbench", "-test"} |->
                 CASE a = "-d" -> "d" [] a = "-z" -> "z" [] a = "-cbench" -> "B"
                   [] a = "-dbench" -> "b" [] a = "-test" -> "t"]
\* atoi(argv[i] + 2)
BlockCodeOf == [a \in {"-B5", "-B9"} |-> IF a = "-B5" THEN 5 ELSE 9]

\* main's locals before the first argument
MainLocals ==
    [bArgsError |-> FALSE, bCommandDefined |-> FALSE, cCommand |-> "z",
     bVerifyCompression |-> FALSE, nBlockMaxCode |-> 7, bRaw |-> FALSE,
     pszInFilename |-> FALSE, pszOutFilename |-> FALSE]

\* the body of the loop over argv for one argument
MainArgument(m, a) ==
    IF a \in DOMAIN CommandOf
    THEN IF ~m.bCommandDefined
         THEN [m EXCEPT !.bCommandDefined = TRUE, !.cCommand = CommandOf[a]]
         ELSE [m EXCEPT !.bArgsError = TRUE]
    ELSE IF a = "-c"
    THEN IF ~m.bVerifyCompression THEN [m EXCEPT !.bVerifyCompression = TRUE]
         ELSE [m EXCEPT !.bArgsError = TRUE]
    ELSE IF a \in DOMAIN BlockCodeOf
    THEN [m EXCEPT !.nBlockMaxCode = BlockCodeOf[a],
                   !.bArgsError = @ \/ BlockCodeOf[a] < 4 \/ BlockCodeOf[a] > 7]
    ELSE IF a = "-r"
    THEN IF ~m.bRaw THEN [m EXCEPT !.bRaw = TRUE] ELSE [m EXCEPT !.bArgsError = TRUE]
    ELSE IF ~m.pszInFilename THEN [m EXCEPT !.pszInFilename = TRUE]
    ELSE IF ~m.pszOutFilename THEN [m EXCEPT !.pszOutFilename = TRUE]
    ELSE [m EXCEPT !.bArgsError = TRUE]

RECURSIVE MainArguments(_, _, _)
MainArguments(m, argv, i) ==
    IF i > Len(argv) THEN m ELSE MainArguments(MainArgument(m, argv[i]), argv, i + 1)

\* what do_compress returns for the status of lz4ultra_compress_file
do_compress(nStatus) == IF nStatus # 0 THEN 100 ELSE 0

\* the value of main when control reaches its closing brace
EndOfMain == 0

\* main after the loop: [exit, ran], the exit status and the operations
\* run with what each returned.  done gives what each operation returns.
MainCommand(m, done) ==
    IF ~m.bArgsError /\ m.cCommand = "t"
    THEN [exit |-> done.do_self_test, ran |-> <<done.do_self_test>>]
    ELSE IF m.bArgsError \/ ~m.pszInFilename \/ ~m.pszOutFilename
    THEN [exit |-> 100, ran |-> <<>>]
    ELSE IF m.cCommand = "z"
    THEN LET nResult == do_compress(done.nStatus)
         IN IF nResult = 0 /\ m.bVerifyCompression
            THEN [exit |-> done.do_compare, ran |-> <<nResult, done.do_compare>>]
            ELSE [exit |-> EndOfMain, ran |-> <<nResult>>]
    ELSE IF m.cCommand = "d"
    THEN [exit |-> done.do_decompress, ran |-> <<done.do_decompress>>]
    ELSE IF m.cCommand = "B"
    THEN [exit |-> done.do_compr_benchmark, ran |-> <<done.do_compr_benchmark>>]
    ELSE IF m.cCommand = "b"
    THEN [exit |-> done.do_dec_benchmark, ran |-> <<done.do_dec_benchmark>>]
    ELSE [exit |-> 100, ran |-> <<>>]

InitTool ==
    /\ IdleBlock
    /\ nBlockMaxSize = 0
    /\ expanded = NotExpanded
    /\ IdleExpand
    /\ Quiet({"cli"})
    /\ \E n \in 0..MaxArgs : \E argv \in [1..n -> Arguments] :
           cli = [argv |-> argv, main |-> MainLocals, exit |-> -1, ran |-> <<>>]
    /\ pc = "started"

ReadArguments ==
    /\ pc = "started"
    /\ cli' = [cli EXCEPT !.main = MainArguments(MainLocals, cli.argv, 1)]
    /\ pc' = "arguments"
    /\ UNCHANGED <<blockVars, expandVars>>
    /\ Keep({"cli"})

\* the command runs; each operation that could run succeeds or fails
RunCommand ==
    /\ pc = "arguments"
    /\ \E nStatus \in {LZ4ULTRA_OK, LZ4ULTRA_ERROR_SRC, LZ4ULTRA_ERROR_RAW_TOOLARGE},
          nOther \in {0, 100} :
           LET r == MainCommand(cli.main,
                        [nStatus |-> nStatus, do_compare |-> nOther,
                         do_self_test |-> nOther, do_decompress |-> nOther,
                         do_compr_benchmark |-> nOther, do_dec_benchmark |-> nOther])
           IN cli' = [cli EXCEPT !.exit = r.exit, !.ran = r.ran]
    /\ pc' = "exited"
    /\ UNCHANGED <<blockVars, expandVars>>
    /\ Keep({"cli"})

NextTool == ReadArguments \/ RunCommand

SpecTool == InitTool /\ [][NextTool]_vars

\* C11: the tool exits with 0 when what was asked for succeeded and with 100
\* when anything failed: bad arguments, a missing file name, or an operation
\* that returned an error; a compression that failed does not exit with 0.
ExitCodes ==
    pc = "exited" =>
        LET bFailed == \/ cli.main.bArgsError
                       \/ (cli.main.cCommand # "t"
                             /\ (~cli.main.pszInFilename \/ ~cli.main.pszOutFilename))
                       \/ \E i \in 1..Len(cli.ran) : cli.ran[i] # 0
        IN cli.exit = IF bFailed THEN 100 ELSE 0
(***************************************************************************)
(* lz4ultra_compress_stream, one turn of its loop at a time                *)
(***************************************************************************)
StreamSizes == {0, 100, 65536, 70000, 262144, 300000, 1048576, 4200000}
InitStream ==
    /\ IdleBlock
    /\ nBlockMaxSize = 0
    /\ expanded = NotExpanded
    /\ IdleExpand
    /\ Quiet({"stream"})
    /\ \E n \in StreamSizes, code \in 4..7, raw \in BOOLEAN, independent \in BOOLEAN,
          nDictionary \in {0, 100}, bNoMemory \in BOOLEAN, nFailWrite \in {0, 1, 3, 4} :
           stream = StreamCall(n, raw, independent, code, nDictionary, bNoMemory,
                               nFailWrite)
    /\ pc = "stream"

CompressStreamStart ==
    /\ pc = "stream"
    /\ \E n \in ReadSizes(stream, BlockMaxSizeOf(stream.nRequestedCode)) :
           stream' = StreamStart(stream, n)
    /\ pc' = IF stream.bNoMemory THEN "streamReturned" ELSE "streamLoop"
    /\ UNCHANGED <<blockVars, expandVars>>
    /\ Keep({"stream"})

StreamGoesOn(s) == (s.nPreloadedInDataSize > 0 \/ ~s.bEof) /\ s.nError = 0

CompressStreamBlock ==
    /\ pc = "streamLoop"
    /\ StreamGoesOn(stream)
    /\ stream.nNumBlocks < MaxStreamBlocks
    /\ \E n \in ReadSizes(stream, stream.nBlockMaxSize) :
       \E shrunk \in ShrinkOutcomes(StreamInDataSize(stream, n),
                                    StreamMaxOutDataSize(stream, n), stream.bRaw) :
           stream' = StreamTurn(stream, n, shrunk)
    /\ UNCHANGED <<pc, blockVars, expandVars>>
    /\ Keep({"stream"})

CompressStreamEnd ==
    /\ pc = "streamLoop"
    /\ ~StreamGoesOn(stream)
    /\ stream' = StreamEnd(stream)
    /\ pc' = "streamReturned"
    /\ UNCHANGED <<blockVars, expandVars>>
    /\ Keep({"stream"})

NextStream == CompressStreamStart \/ CompressStreamBlock \/ CompressStreamEnd

SpecStream == InitStream /\ [][NextStream]_vars

\* C12: when lz4ultra_compress_stream returns an error status, nothing was
\* written to the output stream: no header, no block.
NothingPublishedOnFailure ==
    (pc = "streamReturned" /\ stream.ret # LZ4ULTRA_OK) => stream.out = <<>>

(***************************************************************************)
(* The frame layer: both compressors of whole inputs                       *)
(***************************************************************************)
FrameSizes == {-1, 0, 1, 255, 256, 65535, 65536, 16777215, 16777216, 1073741824,
               2147483647}
InitBlockFrame ==
    /\ IdleBlock
    /\ nBlockMaxSize = 0
    /\ expanded = NotExpanded
    /\ IdleExpand
    /\ Quiet({"frame"})
    /\ \E kind \in {"compressed", "uncompressed", "footer"}, n \in FrameSizes,
          nMaxFrameDataSize \in {3, 4, 16} :
           frame = [kind |-> kind,
                    nBlockDataSize |-> IF kind = "footer" THEN 0 ELSE n,
                    nMaxFrameDataSize |-> nMaxFrameDataSize,
                    encoded |-> <<>>, decoded |-> <<>>]
    /\ pc = "frame"

EncodeBlockFrame ==
    /\ pc = "frame"
    /\ frame' = [frame EXCEPT !.encoded =
          IF frame.kind = "compressed"
          THEN lz4ultra_encode_compressed_block_frame(frame.nMaxFrameDataSize,
                                                      frame.nBlockDataSize)
          ELSE IF frame.kind = "uncompressed"
          THEN lz4ultra_encode_uncompressed_block_frame(frame.nMaxFrameDataSize,
                                                        frame.nBlockDataSize)
          ELSE lz4ultra_encode_footer_frame(frame.nMaxFrameDataSize)]
    /\ pc' = "framed"
    /\ UNCHANGED <<blockVars, expandVars>>
    /\ Keep({"frame"})

\* the reader hands the bytes that were written to lz4ultra_decode_frame
DecodeBlockFrame ==
    /\ pc = "framed"
    /\ frame.encoded.ret > 0
    /\ frame' = [frame EXCEPT !.decoded =
                     lz4ultra_decode_frame(frame.encoded.pFrameData, frame.encoded.ret)]
    /\ pc' = "frameDecoded"
    /\ UNCHANGED <<blockVars, expandVars>>
    /\ Keep({"frame"})

NextBlockFrame == EncodeBlockFrame \/ DecodeBlockFrame

NextFrames == NextStream \/ NextInmem \/ NextBlockFrame

SpecFrames == (InitStream \/ InitInmem \/ InitBlockFrame) /\ [][NextFrames]_vars

\* C15: for 0 < n < 2^31 the prefix of a compressed block of n bytes decodes
\* to (n, 0), that of an uncompressed block to (n, 1) and the footer to
\* size 0; no prefix of a data block written by a compressor has size 0.
BlockPrefixRoundTrip ==
    /\ (pc \in {"framed", "frameDecoded"} /\ frame.nMaxFrameDataSize >= 4
           /\ (frame.kind = "footer" \/ frame.nBlockDataSize > 0))
          => frame.encoded.ret = LZ4ULTRA_FRAME_SIZE
    /\ (pc = "frameDecoded" /\ (frame.kind = "footer" \/ frame.nBlockDataSize > 0))
          => /\ frame.decoded.ret = 0
             /\ frame.decoded.nBlockSize = frame.nBlockDataSize
             /\ frame.kind = "compressed" => frame.decoded.nIsUncompressed = 0
             /\ frame.kind = "uncompressed" => frame.decoded.nIsUncompressed = 1
    /\ pc \in {"streamLoop", "streamReturned"}
          => \A i \in 1..Len(stream.out) :
                stream.out[i].what = "frame"
                   => lz4ultra_decode_frame(stream.out[i].data, 4).nBlockSize > 0
    /\ pc \in {"inmemLoop", "inmemReturned"}
          => \A i \in 1..Len(inmem.blocks) :
                /\ inmem.blocks[i].framed = "compressed"
                      => inmem.blocks[i].shrunk.ret > 0
                /\ inmem.blocks[i].framed = "stored"
                      => inmem.blocks[i].nInDataSize > 0
\* the prefix of the largest uncompressed block went through
BlockPrefixDecoded ==
    /\ pc = "frameDecoded"
    /\ frame.kind = "uncompressed"
    /\ frame.nBlockDataSize = 2147483647
    /\ frame.decoded.nBlockSize = 2147483647
    /\ frame.decoded.nIsUncompressed = 1

\* C13: with the raw-block flag a successful compression of a non-empty
\* input leaves exactly one block, at the first byte of the output, with no
\* header, prefix or footer, and the returned size is the size of that
\* block, on the streaming path and on the in-memory path.
RawBlockFormat ==
    /\ (pc = "streamReturned" /\ stream.bRaw /\ stream.ret = LZ4ULTRA_OK
           /\ stream.nInputSize > 0)
          => /\ Len(stream.out) = 1
             /\ stream.out[1].what = "block"
             /\ stream.pCompressedSize = stream.out[1].size
    /\ (pc = "inmemReturned" /\ inmem.bRaw /\ inmem.nError = 0 /\ ~inmem.bNoMemory
           /\ inmem.nInputSize # Wide(0))
          => /\ Len(inmem.stores) = 1
             /\ inmem.stores[1].what = "block"
             /\ inmem.stores[1].at = Wide(0)
             /\ inmem.ret = Wide(inmem.stores[1].size)

\* the block size code recorded in a stream header
HeaderBlockMaxCode(pFrameData) == pFrameData[6] \div 16
\* the smallest code from 4 to the one asked for whose block holds n bytes
SmallestCode(n, nBlockMaxCode) ==
    CHOOSE code \in 4..nBlockMaxCode :
        /\ BlockMaxSizeOf(code) >= n
        /\ \A less \in 4..(code - 1) : BlockMaxSizeOf(less) < n

\* C14: when the whole input is shorter than the block size asked for, the
\* code in use is the smallest one from 4 up whose block size is at least
\* the input length; the streaming path (first read returning the whole
\* input), the in-memory path and the size bound agree on it, and the
\* header records it.
SmallestBlockCode ==
    /\ (pc \in {"streamLoop", "streamReturned"} /\ ~stream.bNoMemory
           /\ stream.bWholeAtOnce
           /\ stream.nInputSize < BlockMaxSizeOf(stream.nRequestedCode))
          => /\ stream.nBlockMaxCode
                    = SmallestCode(stream.nInputSize, stream.nRequestedCode)
             /\ stream.pHeader # <<>>
                    => HeaderBlockMaxCode(stream.pHeader) = stream.nBlockMaxCode
    /\ (pc \in {"inmemLoop", "inmemReturned"} /\ ~inmem.bNoMemory
           /\ WLess(inmem.nInputSize, Wide(BlockMaxSizeOf(inmem.nRequestedCode))))
          => /\ inmem.nBlockMaxCode
                    = SmallestCode(WInt(inmem.nInputSize), inmem.nRequestedCode)
             /\ BlockMaxBits(inmem.nBlockMaxCode)
                    = BlockMaxBits(EffectiveBlockMaxCode(inmem.nInputSize,
                                                         inmem.nRequestedCode))
             /\ inmem.pHeader # <<>>
                    => HeaderBlockMaxCode(inmem.pHeader) = inmem.nBlockMaxCode

\* C16: lz4ultra_decode_header succeeds only with a block-max code from 4
\* to 7, so that the block size the decompressors compute from it is 64 KiB,
\* 256 KiB, 1 MiB or 4 MiB; decoding an encoded header gives back the code
\* and the independent-blocks flag.
BlockMaxCodeValidated ==
    /\ (pc = "headerDecoded" /\ header.decoded.ret = LZ4ULTRA_DECODE_OK)
          => /\ header.decoded.nBlockMaxCode \in 4..7
             /\ BlockMaxSizeOf(header.decoded.nBlockMaxCode)
                    \in {65536, 262144, 1048576, 4194304}
    /\ (pc = "headerDecoded" /\ header.nPerturbed = 0 /\ header.nBlockMaxCode \in 4..7)
          => /\ header.decoded.ret = LZ4ULTRA_DECODE_OK
             /\ header.decoded.nBlockMaxCode = header.nBlockMaxCode
             /\ header.decoded.nIsIndependentBlocks = header.nIsIndependentBlocks

\* C17: lz4ultra_compress_inmem returns (size_t)-1 whenever it fails, the
\* failure to set up the compression context included; it returns no small
\* number a caller would take for a compressed size.
InmemFailureIsMinusOne ==
    (pc = "inmemReturned" /\ (inmem.bNoMemory \/ inmem.nError # 0))
        => inmem.ret = Wide(-1)

\* C18: with references between blocks, every block after the first has in
\* front of it min(65536, size of the previous block) bytes, the last bytes
\* of the previous block's input, whatever the reads returned; with
\* independent blocks and no dictionary no block has bytes in front of it.
HistoryCarried ==
    pc \in {"streamLoop", "streamReturned"} =>
        \A i \in 1..Len(stream.blocks) :
            LET block == stream.blocks[i]
            IN /\ (~stream.bIndependent /\ i > 1) =>
                     LET previous == stream.blocks[i - 1]
                         nEnd == previous.off + previous.nInDataSize
                     IN /\ block.nPreviousBlockSize
                               = Min(HISTORY_SIZE, previous.nInDataSize)
                        /\ block.history.first
                               = <<"in", nEnd - block.nPreviousBlockSize>>
                        /\ block.history.last = <<"in", nEnd - 1>>
               /\ (stream.bIndependent /\ stream.nDictionaryGiven = 0)
                     => block.nPreviousBlockSize = 0

\* what a failure inside the compressor of a block is reported as
InternalErrors == {LZ4ULTRA_ERROR_MEMORY, LZ4ULTRA_ERROR_COMPRESSION}

\* C19: a block is stored uncompressed only when its compressed form did
\* not fit the output limit; a failure inside the compressor of a block is
\* returned to the caller as an error status and the block is not stored
\* with a success status.
StoredOnlyWhenIncompressible ==
    /\ pc \in {"streamLoop", "streamReturned"} =>
          \A i \in 1..Len(stream.blocks) :
              /\ stream.blocks[i].framed = "stored"
                    => stream.blocks[i].shrunk.cause = "incompressible"
              /\ stream.blocks[i].shrunk.cause = "failed"
                    => /\ stream.nError \in InternalErrors
                       /\ pc = "streamReturned" => stream.ret \in InternalErrors
    /\ pc \in {"inmemLoop", "inmemReturned"} =>
          \A i \in 1..Len(inmem.blocks) :
              /\ inmem.blocks[i].framed = "stored"
                    => inmem.blocks[i].shrunk.cause = "incompressible"
              /\ inmem.blocks[i].shrunk.cause = "failed"
                    => /\ inmem.nError \in InternalErrors
                       /\ pc = "inmemReturned" => inmem.ret = Wide(-1)

(***************************************************************************)
(* The parser in speed mode                                                *)
(***************************************************************************)
\* the length of the finder's match at i once cut to end LAST_LITERALS
\* bytes before the end of the block, as the parser cuts it
ClampedCandidate(found, i) ==
    LET nEndOffset == nPreviousBlockSize + nInDataSize
    IN IF (i + found[i].length) > (nEndOffset - LAST_LITERALS)
       THEN nEndOffset - LAST_LITERALS - i
       ELSE found[i].length
\* the parser ran on a window the index holds whole, favor-ratio off
SpeedParsed ==
    /\ pc = "parsed"
    /\ ~bFavorRatio
    /\ SizeOf(pInWindow) < LEAVE_ALONE_MATCH_SIZE
ParsedPositions == nPreviousBlockSize..(nPreviousBlockSize + nInDataSize - 2)

\* C20, as stated: in speed mode no match the parser chooses for a
\* candidate shorter than LEAVE_ALONE_MATCH_SIZE has a length within
\* (14, 28].
SpeedLengthsAvoid15To28 ==
    SpeedParsed => \A i \in ParsedPositions : parsed[i].length \notin 15..28

\* C20: in speed mode the match the parser chooses at a position whose
\* candidate, cut to the end of the block, has a length within (18, 36] is
\* no longer than 18 = MATCH_RUN_LEN + MIN_MATCH_SIZE - 1, the longest
\* length the token holds.
SpeedCandidatesCut ==
    SpeedParsed =>
        LET found == FoundMatches(pInWindow, nPreviousBlockSize, nInDataSize)
        IN \A i \in ParsedPositions :
               (/\ ClampedCandidate(found, i) > MATCH_RUN_LEN + MIN_MATCH_SIZE - 1
                /\ ClampedCandidate(found, i) <= 2 * (MATCH_RUN_LEN + MIN_MATCH_SIZE - 1))
                   => parsed[i].length <= MATCH_RUN_LEN + MIN_MATCH_SIZE - 1
\* a candidate of more than 18 bytes was cut and chosen at 18
SpeedCandidateCutTo18 ==
    /\ SpeedParsed
    /\ LET found == FoundMatches(pInWindow, nPreviousBlockSize, nInDataSize)
       IN \E i \in ParsedPositions :
              /\ ClampedCandidate(found, i) > MATCH_RUN_LEN + MIN_MATCH_SIZE - 1
              /\ parsed[i].length = MATCH_RUN_LEN + MIN_MATCH_SIZE - 1

(***************************************************************************)
(* The parser on a match of LEAVE_ALONE_MATCH_SIZE bytes or more, one      *)
(* position of its loop at a time, next to a parser that tries every       *)
(* length of such a match                                                  *)
(***************************************************************************)
\* The matches of a block A B x, x twelve bytes found nowhere else, behind
\* the history z A s a B t: A of nLong bytes, a its last byte, B of nNext
\* bytes, z, s and t single bytes found nowhere else (the finder returns no
\* match with position 0 of the window).  Every position holds the longest
\* match there is.
LongMatches(nLong, nNext, nStartOffset) ==
    Array([p \in nStartOffset..(nStartOffset + nLong + nNext + 11) |->
              LET q == p - nStartOffset
              IN IF q = nLong - 1 THEN [length |-> nNext + 1, offset |-> nStartOffset - 3]
                 ELSE IF q < nLong /\ nLong - q >= MIN_MATCH_SIZE
                 THEN [length |-> nLong - q, offset |-> nStartOffset - 1]
                 ELSE IF q >= nLong /\ (nLong + nNext) - q >= MIN_MATCH_SIZE
                 THEN [length |-> (nLong + nNext) - q, offset |-> nStartOffset - 3]
                 ELSE NoMatch])

InitOptimizer ==
    /\ IdleBlock
    /\ nBlockMaxSize = 0
    /\ expanded = NotExpanded
    /\ IdleExpand
    /\ Quiet({"optimizer"})
    /\ \E nLong \in {LEAVE_ALONE_MATCH_SIZE, MaxLongMatch}, nNext \in {10},
          ratio \in BOOLEAN :
           LET nStartOffset == nLong + nNext + 4
               nEndOffset == nStartOffset + nLong + nNext + 12
               entry == OptimizeEntry(LongMatches(nLong, nNext, nStartOffset),
                                      nStartOffset, nEndOffset)
           IN optimizer = [nLong |-> nLong, nStartOffset |-> nStartOffset,
                           nEndOffset |-> nEndOffset, bFavorRatio |-> ratio,
                           ruled |-> entry, free |-> entry]
    /\ pc = "optimizing"

\* sixteen turns of the loop of lz4ultra_optimize_matches_lz4, and of the
\* parser without the rule, which does the same as long as the two are in
\* the same state and the matches are shorter than LEAVE_ALONE_MATCH_SIZE
OptimizePositions ==
    /\ pc = "optimizing"
    /\ \E ruled \in {OptimizeLongLoop(optimizer.ruled, optimizer.nStartOffset,
                                        optimizer.nEndOffset, optimizer.bFavorRatio,
                                        TRUE, 16)} :
       LET bSame == /\ optimizer.free = optimizer.ruled
                    /\ \A p \in (ruled.i + 1)..optimizer.ruled.i :
                          ~GEu(optimizer.ruled.match[p].length, LEAVE_ALONE_MATCH_SIZE)
       IN /\ optimizer' = [optimizer EXCEPT
                 !.ruled = ruled,
                 !.free = IF bSame THEN ruled
                          ELSE OptimizeLongLoop(@, optimizer.nStartOffset,
                                                optimizer.nEndOffset,
                                                optimizer.bFavorRatio, FALSE, 16)]
          /\ pc' = IF ruled.i = optimizer.nStartOffset - 1 THEN "optimized"
                   ELSE "optimizing"
    /\ UNCHANGED <<blockVars, expandVars>>
    /\ Keep({"optimizer"})

NextOptimizer == OptimizePositions

SpecOptimizer == InitOptimizer /\ [][NextOptimizer]_vars

\* C21: the parser that tries a match of LEAVE_ALONE_MATCH_SIZE bytes or
\* more at its full length only leaves the same match array as a parser
\* that tries every length of it.
LeaveAloneNeutral ==
    pc = "optimized" => optimizer.ruled.match = optimizer.free.match

(***************************************************************************)
(* The matches the peephole pass leaves                                    *)
(***************************************************************************)
\* C22: after the peephole pass every match the emitter visits, a fused one
\* included, has 4 to 65535 bytes, starts no less than its offset into the
\* window, ends inside the block and copies bytes equal to the ones it
\* stands for; when the block written for these matches, demoted positions
\* included, is expanded, the bytes of the block come back.
PeepholeKeepsBytes ==
    Shrunk =>
        LET nEndOffset == nPreviousBlockSize + nInDataSize
            after == lz4ultra_write_block_lz4(pInWindow, match, nPreviousBlockSize,
                                              nEndOffset, FALSE, (2 * nEndOffset) + 16)
        IN /\ after.ret > 0
           /\ \A k \in 1..Len(after.cmds) :
                  LET p == after.cmds[k][1]
                      o == after.cmds[k][2]
                      l == after.cmds[k][3]
                  IN /\ p - o >= 0
                     /\ l >= MIN_MATCH_SIZE
                     /\ l <= 65535
                     /\ p + l <= nEndOffset
                     /\ SameBytes(pInWindow, p, p - o, l)
           /\ pc = "expanded" =>
                  /\ expanded.ret = nInDataSize
                  /\ \A p \in nPreviousBlockSize..(nEndOffset - 1) :
                         expanded.buf[p] = pInWindow[p]

\* the pass joined two matches with different offsets, the first offset
\* smaller than the length of the second match (a copy that overlaps what it
\* writes)
PeepholeJoinedOffsets ==
    /\ Shrunk
    /\ \E j \in DOMAIN match :
         /\ match[j].length = -1
         /\ \E i \in DOMAIN match :
           /\ GEu(parsed[i].length, MIN_MATCH_SIZE)
           /\ i + parsed[i].length = j
           /\ match[i].length = parsed[i].length + parsed[j].length
           /\ parsed[i].offset # parsed[j].offset
           /\ parsed[i].offset < parsed[j].length

(***************************************************************************)
(* The matches the finder records                                          *)
(***************************************************************************)
\* what lz4ultra_find_all_matches records for the block that was loaded
LoadedMatches == FoundMatches(pInWindow, nPreviousBlockSize, nInDataSize)

\* every entry of found for a position of the block is (0, 0) or a match
\* with an offset from 1 to 65535 that stays inside the window, a length from
\* 4 to what is left of the block less its last 5 bytes, equal bytes at the
\* two places, and a start no later than 12 bytes before the end of the block
EntriesLegal(found) ==
    LET nEndOffset == nPreviousBlockSize + nInDataSize
    IN \A p \in nPreviousBlockSize..(nEndOffset - 1) :
           \/ found[p] = NoMatch
           \/ /\ found[p].offset >= 1
              /\ found[p].offset <= 65535
              /\ found[p].offset <= p
              /\ found[p].length >= MIN_MATCH_SIZE
              /\ found[p].length <= (nEndOffset - 5) - p
              /\ SameBytes(pInWindow, p, p - found[p].offset, found[p].length)
              /\ p <= nEndOffset - 12

\* no position of the block holds a match
NoEntry(found) ==
    \A p \in nPreviousBlockSize..(nPreviousBlockSize + nInDataSize - 1) :
        found[p] = NoMatch

\* C23, as stated: the entries the finder records are legal, and a block
\* shorter than 13 bytes holds no match.
FinderEntriesBelow13 ==
    pc = "loaded" =>
        LET found == LoadedMatches
        IN /\ EntriesLegal(found)
           /\ nInDataSize < 13 => NoEntry(found)

\* C23, amended: the entries the finder records are legal, every position
\* later than 12 bytes before the end of the block holds (0, 0), and a block
\* shorter than 12 bytes holds no match.
FinderEntriesLegal ==
    pc = "loaded" =>
        LET found == LoadedMatches
        IN /\ EntriesLegal(found)
           /\ \A p \in nPreviousBlockSize..(nPreviousBlockSize + nInDataSize - 1) :
                  p > (nPreviousBlockSize + nInDataSize) - 12 => found[p] = NoMatch
           /\ nInDataSize < 12 => NoEntry(found)

\* the finder ran on a block of 12 bytes behind a history and recorded a
\* match at its first position, cut to the 7 bytes before the last 5
FinderMatchInTwelve ==
    /\ pc = "loaded"
    /\ nInDataSize = 12
    /\ nPreviousBlockSize > 0
    /\ LoadedMatches[nPreviousBlockSize].length = 7
\* C24, as stated: the commands written for the 12 bytes a b c a b c a b c
\* a b c hold a match with offset 3 and 9 bytes or more
PeriodicTwelveMatch ==
    (Shrunk /\ pInWindow = PeriodicWindow(12) /\ nPreviousBlockSize = 0 /\ written.ret > 0) =>
        \E k \in 1..Len(written.cmds) :
            written.cmds[k][2] = 3 /\ written.cmds[k][3] >= 9

\* C24, amended: the 12 bytes are written as one command of literals and no
\* match; the first 18 bytes of the same pattern are written with a match of
\* offset 3 and 9 bytes
PeriodicMatch ==
    (Shrunk /\ nPreviousBlockSize = 0 /\ written.ret > 0) =>
        /\ pInWindow = PeriodicWindow(12) =>
               written.cmds = <<>> /\ written.num_commands = 1
        /\ pInWindow = PeriodicWindow(18) =>
               \E k \in 1..Len(written.cmds) :
                   written.cmds[k][2] = 3 /\ written.cmds[k][3] = 9

PeriodicWritten ==
    /\ Shrunk
    /\ nPreviousBlockSize = 0
    /\ written.ret = 13
    /\ pInWindow = PeriodicWindow(18)
    /\ written.cmds = <<(<<4, 3, 9>>)>>
(***************************************************************************)
(* One command of lz4ultra_write_block_lz4: the size computed for it, the  *)
(* bytes written for it, and what the parser charges for its literals      *)
(***************************************************************************)
\* the emitter arrives at a match, or at the end of the block, with
\* nNumLiterals literals collected
InitCommand ==
    /\ IdleBlock
    /\ nBlockMaxSize = 0
    /\ expanded = NotExpanded
    /\ IdleExpand
    /\ Quiet({"command"})
    /\ \E n \in 0..MaxVarlen, e \in 0..MaxVarlen, last \in BOOLEAN :
        /\ n <= MaxBoth \/ e <= MaxBoth
        /\ last => e = 0
        /\ command = [pc |-> "entry", nNumLiterals |-> n, nEncodedMatchLen |-> e,
                      bLast |-> last, nCommandSize |-> 0, nLiteralsSize |-> 0,
                      nMatchSize |-> 0, literals_varlen |-> <<>>, match_varlen |-> <<>>,
                      out |-> <<>>, cost |-> 0]
    /\ pc = "command"

\* the literals of the command
CommandWindow(n) == Array([i \in 0..(n - 1) |-> 0])

\* a match command: the size computed before the check against
\* nMaxOutDataSize, then the bytes
WriteMatchCommand ==
    /\ pc = "command"
    /\ command.pc = "entry"
    /\ ~command.bLast
    /\ command' = [command EXCEPT
           !.pc = "written",
           !.nLiteralsSize = lz4ultra_get_literals_varlen_size(command.nNumLiterals),
           !.nMatchSize = lz4ultra_get_match_varlen_size(command.nEncodedMatchLen),
           !.nCommandSize = 8 * MatchCommandSize(command.nNumLiterals,
                                                 command.nEncodedMatchLen),
           !.literals_varlen = lz4ultra_write_literals_varlen(<<>>, command.nNumLiterals),
           !.match_varlen = lz4ultra_write_match_varlen(<<>>, command.nEncodedMatchLen),
           !.out = MatchCommandBytes(CommandWindow(command.nNumLiterals), 0,
                                     command.nNumLiterals, 1, command.nEncodedMatchLen)]
    /\ UNCHANGED <<pc, blockVars, expandVars>>
    /\ Keep({"command"})

\* the last command of a block
WriteEndCommand ==
    /\ pc = "command"
    /\ command.pc = "entry"
    /\ command.bLast
    /\ command' = [command EXCEPT
           !.pc = "written",
           !.nLiteralsSize = lz4ultra_get_literals_varlen_size(command.nNumLiterals),
           !.nCommandSize = 8 * LastCommandSize(command.nNumLiterals),
           !.literals_varlen = lz4ultra_write_literals_varlen(<<>>, command.nNumLiterals),
           !.out = WriteLastCommand(CommandWindow(command.nNumLiterals),
                       [out |-> <<>>, nNumLiterals |-> command.nNumLiterals,
                        nInFirstLiteralOffset |-> 0, num_commands |-> 0, cmds |-> <<>>],
                       FALSE, command.nNumLiterals + MaxBoth).out]
    /\ UNCHANGED <<pc, blockVars, expandVars>>
    /\ Keep({"command"})

\* lz4ultra_optimize_matches_lz4 on a block of nNumLiterals bytes without a
\* match: cost[nStartOffset], what the parser charges for the literals
ChargeLiterals ==
    /\ pc = "command"
    /\ command.pc = "written"
    /\ command.bLast
    /\ command.nNumLiterals >= 2
    /\ command' = [command EXCEPT
           !.pc = "charged",
           !.cost = OptimizeChunks(
                        OptimizeEntry(Array([p \in 0..(command.nNumLiterals - 1) |-> NoMatch]),
                                      0, command.nNumLiterals),
                        0, command.nNumLiterals, TRUE).cost[0]]
    /\ UNCHANGED <<pc, blockVars, expandVars>>
    /\ Keep({"command"})

NextCommand == WriteMatchCommand \/ WriteEndCommand \/ ChargeLiterals

SpecCommand == InitCommand /\ [][NextCommand]_vars

\* the extra length bytes of a length that takes the 15 of the token
ExtraBytes(nLength) == IF nLength >= 15 THEN ((nLength - 15) \div 255) + 1 ELSE 0
CeilBytes(nLength) == IF nLength >= 15 THEN ((nLength - 15) + 254) \div 255 ELSE 0

\* the bytes charged and written for the two lengths of a command are given
\* by f
LengthBytesAre(f(_)) ==
    command.pc \in {"written", "charged"} =>
        /\ command.nLiteralsSize = 8 * f(command.nNumLiterals)
        /\ Len(command.literals_varlen) = f(command.nNumLiterals)
        /\ ~command.bLast =>
              /\ command.nMatchSize = 8 * f(command.nEncodedMatchLen)
              /\ Len(command.match_varlen) = f(command.nEncodedMatchLen)
        /\ command.pc = "charged" =>
              command.cost = 8 * (command.nNumLiterals + f(command.nNumLiterals))

\* C25, as stated: a literal run of run_len >= 15 bytes is charged, and
\* written with, ceil((run_len - 15) / 255) extra length bytes, a shorter one
\* with none; the same holds of a match length less 4
CeilLengthBytes == LengthBytesAre(CeilBytes)

\* C25, amended: the extra length bytes are floor((run_len - 15) / 255) + 1
\* for run_len >= 15, and none below 15; the same holds of a match length less 4
FloorLengthBytes == LengthBytesAre(ExtraBytes)

LengthBytesAtBoundary ==
    /\ command.pc = "charged"
    /\ command.nNumLiterals = 15 + 255
    /\ command.literals_varlen = <<255, 0>>
    /\ command.cost = 8 * (270 + 2)

\* a length of 15 or more is written as bytes 255 and a last byte below 255
\* that add up to it with the 15 of the token; a shorter one takes no byte
VarlenShape(bytes, nLength) ==
    IF nLength < 15 THEN bytes = <<>>
    ELSE /\ Len(bytes) >= 1
         /\ \A j \in 1..(Len(bytes) - 1) : bytes[j] = 255
         /\ bytes[Len(bytes)] < 255
         /\ 15 + (255 * (Len(bytes) - 1)) + bytes[Len(bytes)] = nLength

\* C26: the bytes the emitter writes for a length are as many as the size
\* function says, bytes 255 and a last byte below 255 that add up to the
\* length with the 15 of the token (none below 15); the bytes of a command
\* are as many as the nCommandSize >> 3 that was compared with
\* nMaxOutDataSize
EmitterSizeExact ==
    command.pc \in {"written", "charged"} =>
        /\ Len(command.literals_varlen) * 8 = command.nLiteralsSize
        /\ VarlenShape(command.literals_varlen, command.nNumLiterals)
        /\ ~command.bLast =>
              /\ Len(command.match_varlen) * 8 = command.nMatchSize
              /\ VarlenShape(command.match_varlen, command.nEncodedMatchLen)
        /\ Len(command.out) = command.nCommandSize \div 8
        /\ command.nCommandSize % 8 = 0

EmitterBothExtended ==
    /\ command.pc = "written"
    /\ ~command.bLast
    /\ command.nNumLiterals = 15
    /\ command.nEncodedMatchLen = 15 + 255 + 255
    /\ Len(command.out) = 1 + 1 + 15 + 2 + 3
\* what the context answers after one block: e is what the emitter left
lz4ultra_compressor_get_command_count(e) == e.num_commands

\* C30: after a block compressed with a new context and the room the
\* streaming compressor gives it, the command count is the number of
\* commands of the block (its match commands and the last command of
\* literals) when the block was written, and 0 when the block did not fit and
\* is stored uncompressed.
CommandCountMatchesOutput ==
    (Shrunk /\ ~bRawBlock /\ nMaxOutDataSize = nInDataSize) =>
        lz4ultra_compressor_get_command_count(written)
            = IF written.ret >= 0 THEN Len(written.cmds) + 1 ELSE 0
(***************************************************************************)
(* The decompressors of streams, lz4ultra_decompress_stream and            *)
(* lz4ultra_inmem_decompress_stream, on what lz4ultra_compress_stream      *)
(* wrote.  A byte of the output is named like a byte of pInData:           *)
(* <<"in", k>> is byte k of the compressor's input; <<"heap", 0>> is a     *)
(* byte of allocated memory nothing was stored in, <<"wrong", 0>> a byte   *)
(* copied from a history that is not the compressor's.                     *)
(***************************************************************************)
LZ4ULTRA_HEADER_SIZE == 4
LZ4ULTRA_ERROR_FORMAT == 8
LZ4ULTRA_ERROR_CHECKSUM == 9
LZ4ULTRA_ERROR_DECOMPRESSION == 10

\* the number of header bytes that follow the magic number: 3 in a stream
\* of modern frames, none in a stream of legacy frames
lz4ultra_check_header(pFrameData, nFrameDataSize) ==
    IF nFrameDataSize # LZ4ULTRA_HEADER_SIZE THEN LZ4ULTRA_DECODE_ERR_FORMAT
    ELSE IF pFrameData = <<4, 34, 77, 24>>
    THEN LZ4ULTRA_MAX_HEADER_SIZE - LZ4ULTRA_HEADER_SIZE
    ELSE IF pFrameData = <<2, 33, 76, 24>> THEN 0
    ELSE LZ4ULTRA_DECODE_ERR_FORMAT

\* the writes of the compressor that hold the bytes of a block
DataItems(out) == { i \in 1..Len(out) : out[i].what \in {"block", "stored"} }

\* where the compressed bytes may end: <<0, 0>> after the last byte;
\* <<i, n>> after n bytes of write i, inside the first block, a byte before
\* the end of the last block, or inside the first block's prefix
StreamCuts(s) ==
    IF s.bRaw \/ DataItems(s.out) = {} THEN {<<0, 0>>}
    ELSE LET nFirst == SetMin(DataItems(s.out))
             nLast == CHOOSE i \in DataItems(s.out) : \A j \in DataItems(s.out) : j <= i
         IN {<<0, 0>>, <<nFirst, Min(1, s.out[nFirst].size - 1)>>,
             <<nLast, s.out[nLast].size - 1>>, <<nFirst - 1, 2>>}

\* the bytes handed to a decompressor, write by write, with the bytes of
\* each that are there
Arrived(out, cut) ==
    [i \in 1..(IF cut[1] = 0 THEN Len(out) ELSE cut[1]) |->
        [what |-> out[i].what, size |-> out[i].size, data |-> out[i].data,
         nArrived |-> IF i = cut[1] THEN cut[2] ELSE out[i].size]]

\* a decompressor about to run on input; s is the compressor's call
ReaderCall(kind, input, cut, fill, s) ==
    [kind |-> kind, input |-> input, cut |-> cut, fill |-> fill,
     bRaw |-> s.bRaw, bIndependent |-> s.bIndependent,
     nDictionaryDataSize |-> IF kind = "stream" THEN s.nDictionaryGiven ELSE 0,
     nItem |-> 1, bEof |-> FALSE, nBlockMaxCode |-> 7, nBlockMaxSize |-> 0,
     nPrevDecompressedSize |-> 0, nPreviousBlockSize |-> 0, pCurOutBuffer |-> 0,
     nNumBlocks |-> 0, nDecompressionError |-> 0,
     nOriginalSize |-> 0, nCompressedSize |-> 0,
     history |-> <<>>, writes |-> <<>>, blocks |-> <<>>, bGood |-> TRUE,
     ret |-> Running]

NoItem == [what |-> "end", size |-> 0, data |-> <<>>, nArrived |-> 0]
\* the write the next read starts in
ItemAt(r) == IF r.nItem <= Len(r.input) THEN r.input[r.nItem] ELSE NoItem

\* lz4ultra_decompress_stream up to its loop
StreamReaderStart(r, bNoMemory) ==
    LET item == ItemAt(r)
        nExtraHeaderSize ==
            lz4ultra_check_header(SubSeq(item.data, 1, LZ4ULTRA_HEADER_SIZE),
                                  LZ4ULTRA_HEADER_SIZE)
        nHeaderSize == LZ4ULTRA_HEADER_SIZE + nExtraHeaderSize
        d == lz4ultra_decode_header(SubSeq(item.data, 1, nHeaderSize), nHeaderSize,
                                    r.nBlockMaxCode, IF r.bIndependent THEN 1 ELSE 0)
        r1 == IF r.bRaw THEN r
              ELSE [r EXCEPT !.nBlockMaxCode = d.nBlockMaxCode,
                             !.bIndependent = (d.nIsIndependentBlocks = 1),
                             !.nCompressedSize = nHeaderSize,
                             !.nItem = @ + 1]
    IN IF ~r.bRaw /\ (item.what # "header" \/ item.nArrived < LZ4ULTRA_HEADER_SIZE)
       THEN [r EXCEPT !.ret = LZ4ULTRA_ERROR_SRC]
       ELSE IF ~r.bRaw /\ nExtraHeaderSize < 0
       THEN [r EXCEPT !.ret = LZ4ULTRA_ERROR_FORMAT]
       ELSE IF ~r.bRaw /\ item.nArrived < nHeaderSize
       THEN [r EXCEPT !.ret = LZ4ULTRA_ERROR_SRC]
       ELSE IF ~r.bRaw /\ d.ret < 0
       THEN [r EXCEPT !.ret = IF d.ret = LZ4ULTRA_DECODE_ERR_SUM
                              THEN LZ4ULTRA_ERROR_CHECKSUM ELSE LZ4ULTRA_ERROR_FORMAT]
       ELSE IF bNoMemory THEN [r EXCEPT !.ret = LZ4ULTRA_ERROR_MEMORY]
       ELSE [r1 EXCEPT !.nBlockMaxSize = BlockMaxSizeOf(r1.nBlockMaxCode)]

\* the byte at p in the block area of pOutData after the blocks decoded up
\* to the i-th
RECURSIVE OutByteAt(_, _, _, _)
OutByteAt(writes, i, p, fill) ==
    IF i = 0 THEN <<fill, 0>>
    ELSE IF writes[i].size > p
    THEN IF writes[i].good THEN <<"in", writes[i].off + p>> ELSE <<"wrong", 0>>
    ELSE OutByteAt(writes, i - 1, p, fill)

\* how far back the matches of a compressed block may reach into the bytes
\* in front of it: not at all, or to the first of them
Reaches(s, k) ==
    IF k <= Len(s.blocks) /\ s.blocks[k].framed = "compressed"
          /\ s.blocks[k].nPreviousBlockSize > 0
    THEN {0, Min(s.blocks[k].nPreviousBlockSize, MAX_OFFSET)}
    ELSE {0}

\* one turn of the loop of lz4ultra_decompress_stream; s is the
\* compressor's call, nReach how far back the block's matches reach.  The
\* blocks come from the compressor, so lz4ultra_decompressor_expand_block
\* finds nothing to refuse; the output stream takes every write.
StreamReaderTurn(r, s, nReach) ==
    LET bCarry == r.nPrevDecompressedSize # 0
        bDictionary == ~bCarry /\ r.nDictionaryDataSize # 0
        nPrevious == IF bDictionary THEN r.nDictionaryDataSize
                     ELSE r.nPrevDecompressedSize
        pHistory == IF bCarry
                    THEN [first |-> OutByteAt(r.writes, Len(r.writes),
                                              r.nBlockMaxSize - nPrevious, r.fill),
                          last |-> OutByteAt(r.writes, Len(r.writes),
                                             r.nBlockMaxSize - 1, r.fill)]
                    ELSE IF bDictionary
                    THEN [first |-> <<"dictionary", 0>>,
                          last |-> <<"dictionary", nPrevious - 1>>]
                    ELSE r.history
        r1 == [r EXCEPT !.nPrevDecompressedSize = nPrevious,
                        !.history = pHistory,
                        !.nDictionaryDataSize = IF bDictionary /\ ~r.bIndependent
                                                THEN 0 ELSE @]
        prefix == ItemAt(r)
        bPrefixRead == /\ prefix.what \in {"frame", "footer"}
                       /\ prefix.nArrived = LZ4ULTRA_FRAME_SIZE
        f == lz4ultra_decode_frame(prefix.data, LZ4ULTRA_FRAME_SIZE)
        nAsked == IF r.bRaw THEN IF r.nNumBlocks = 0 THEN r.nBlockMaxSize ELSE 0
                  ELSE IF bPrefixRead /\ f.ret >= 0 THEN f.nBlockSize
                  ELSE 0
        r2 == IF r.bRaw THEN r1
              ELSE IF bPrefixRead
              THEN [r1 EXCEPT !.nItem = @ + 1,
                              !.nCompressedSize = @ + LZ4ULTRA_FRAME_SIZE]
              ELSE [r1 EXCEPT !.bEof = TRUE, !.nItem = Len(r.input) + 1]
        data == ItemAt(r2)
        nThere == IF data.what \in {"block", "stored"} THEN data.nArrived ELSE 0
        nRead == Min(nAsked, nThere)
        nReadBytes == IF ~r.bRaw THEN nRead ELSE IF nRead > 2 THEN nRead - 2 ELSE 0
        nBlockSize == IF r.bRaw THEN nReadBytes ELSE nAsked
        k == r.nNumBlocks + 1
        bStored == ~r.bRaw /\ f.nIsUncompressed = 1
        bAgreed == /\ nPrevious = s.blocks[k].nPreviousBlockSize
                   /\ nPrevious = 0 \/ pHistory = s.blocks[k].history
        good == bStored \/ nBlockSize = 0 \/ nReach = 0 \/ bAgreed
        nDecompressedSize == IF bStored THEN nBlockSize
                             ELSE IF nBlockSize = 0 THEN 0
                             ELSE s.blocks[k].nInDataSize
    IN IF nAsked = 0 THEN [r2 EXCEPT !.ret = r2.nDecompressionError]
       ELSE IF nAsked > r.nBlockMaxSize
       THEN [r2 EXCEPT !.nDecompressionError = LZ4ULTRA_ERROR_FORMAT,
                       !.ret = LZ4ULTRA_ERROR_FORMAT]
       ELSE IF nReadBytes # nBlockSize
       THEN [r2 EXCEPT !.nItem = @ + 1, !.bEof = TRUE, !.ret = r2.nDecompressionError]
       ELSE [r2 EXCEPT
                !.nItem = @ + 1,
                !.bEof = @ \/ nRead < nAsked,
                !.nCompressedSize = @ + nReadBytes,
                !.nOriginalSize = @ + nDecompressedSize,
                !.blocks = IF nBlockSize = 0 THEN @
                           ELSE Append(@, [nPreviousBlockSize |-> nPrevious,
                                           history |-> pHistory,
                                           nDecompressedSize |-> nDecompressedSize,
                                           good |-> good]),
                !.writes = IF nDecompressedSize = 0 THEN @
                           ELSE Append(@, [off |-> s.blocks[k].off,
                                           size |-> nDecompressedSize, good |-> good]),
                !.bGood = @ /\ good,
                !.nPrevDecompressedSize =
                    IF nDecompressedSize = 0 THEN @
                    ELSE IF ~r.bIndependent THEN Min(nDecompressedSize, HISTORY_SIZE)
                    ELSE 0,
                !.nNumBlocks = @ + 1]

\* lz4ultra_inmem_decompress_stream up to its loop.  The call hands
\* LZ4ULTRA_HEADER_SIZE bytes to lz4ultra_decode_header; d is what that
\* call returned
InmemReaderStart(r, d) ==
    IF ItemAt(r).nArrived < LZ4ULTRA_HEADER_SIZE \/ d.ret # LZ4ULTRA_DECODE_OK
    THEN [r EXCEPT !.ret = -1]
    ELSE [r EXCEPT !.nBlockMaxCode = d.nBlockMaxCode,
                   !.bIndependent = (d.nIsIndependentBlocks = 1),
                   !.nBlockMaxSize = BlockMaxSizeOf(d.nBlockMaxCode),
                   !.nItem = @ + 1]

\* what lz4ultra_decode_header may return to lz4ultra_inmem_decompress_stream:
\* the answer of the function of frame.c to a call with
\* LZ4ULTRA_HEADER_SIZE bytes, or the answer of a decoder that takes the
\* header the compressor wrote
InmemHeaders(pFrameData) ==
    {lz4ultra_decode_header(SubSeq(pFrameData, 1, LZ4ULTRA_HEADER_SIZE),
                            LZ4ULTRA_HEADER_SIZE, 0, 0),
     lz4ultra_decode_header(pFrameData, Len(pFrameData), 0, 0)}

\* one turn of the loop of lz4ultra_inmem_decompress_stream, which is given
\* room for every block
InmemReaderTurn(r, s, nReach) ==
    LET prefix == ItemAt(r)
        f == lz4ultra_decode_frame(prefix.data, LZ4ULTRA_FRAME_SIZE)
        data == IF r.nItem + 1 <= Len(r.input) THEN r.input[r.nItem + 1] ELSE NoItem
        nThere == IF data.what \in {"block", "stored"} THEN data.nArrived ELSE 0
        k == r.nNumBlocks + 1
        block == s.blocks[k]
        nHistory == IF r.bIndependent \/ r.nPreviousBlockSize = 0 THEN 0
                    ELSE r.nPreviousBlockSize
        bCarried == /\ block.history.first = <<"in", block.off - block.nPreviousBlockSize>>
                    /\ block.history.last = <<"in", block.off - 1>>
        good == nReach = 0 \/ (bCarried /\ r.bGood)
    IN IF r.nItem > Len(r.input) THEN [r EXCEPT !.ret = r.pCurOutBuffer]
       ELSE IF ~(prefix.what \in {"frame", "footer"})
                  \/ prefix.nArrived < LZ4ULTRA_FRAME_SIZE \/ f.ret # LZ4ULTRA_DECODE_OK
       THEN [r EXCEPT !.ret = -1]
       ELSE IF f.nBlockSize = 0 THEN [r EXCEPT !.ret = r.pCurOutBuffer]
       ELSE IF nThere < f.nBlockSize THEN [r EXCEPT !.ret = -1]
       ELSE IF f.nIsUncompressed = 0
       THEN IF nReach > nHistory THEN [r EXCEPT !.ret = -1]
            ELSE [r EXCEPT !.pCurOutBuffer = @ + block.nInDataSize,
                           !.nPreviousBlockSize = block.nInDataSize,
                           !.blocks = Append(@, [nPreviousBlockSize |-> nHistory,
                                                 nDecompressedSize |-> block.nInDataSize,
                                                 good |-> good]),
                           !.bGood = @ /\ good,
                           !.nNumBlocks = @ + 1,
                           !.nItem = @ + 2]
       ELSE [r EXCEPT !.pCurOutBuffer = @ + f.nBlockSize,
                      !.blocks = Append(@, [nPreviousBlockSize |-> 0,
                                            nDecompressedSize |-> f.nBlockSize,
                                            good |-> TRUE]),
                      !.nNumBlocks = @ + 1,
                      !.nItem = @ + 2]

\* a compression that wrote all its output
InitReader ==
    /\ InitStream
    /\ stream.nFailWrite = 0
    /\ ~stream.bNoMemory

\* a decompressor is called on the stream written, or on its first bytes
DecompressStart ==
    /\ pc = "streamReturned"
    /\ stream.ret = LZ4ULTRA_OK
    /\ \/ \E cut \in StreamCuts(stream), fill \in {"zero", "heap"}, bNoMemory \in BOOLEAN :
             reader' = StreamReaderStart(
                           ReaderCall("stream", Arrived(stream.out, cut), cut, fill, stream),
                           bNoMemory)
       \/ /\ ~stream.bRaw
          /\ \E cut \in StreamCuts(stream), d \in InmemHeaders(stream.pHeader) :
                reader' = InmemReaderStart(
                              ReaderCall("inmem", Arrived(stream.out, cut), cut, "zero",
                                         stream), d)
    /\ pc' = IF reader'.ret = Running THEN "reading" ELSE "readerReturned"
    /\ UNCHANGED <<blockVars, expandVars>>
    /\ Keep({"reader"})

DecompressStreamBlock ==
    /\ pc = "reading"
    /\ reader.kind = "stream"
    /\ ~reader.bEof /\ reader.nDecompressionError = 0
    /\ \E nReach \in Reaches(stream, reader.nNumBlocks + 1) :
           reader' = StreamReaderTurn(reader, stream, nReach)
    /\ pc' = IF reader'.ret = Running THEN "reading" ELSE "readerReturned"
    /\ UNCHANGED <<blockVars, expandVars>>
    /\ Keep({"reader"})

\* the loop ends at the end of the input
DecompressStreamEnd ==
    /\ pc = "reading"
    /\ reader.kind = "stream"
    /\ reader.bEof \/ reader.nDecompressionError # 0
    /\ reader' = [reader EXCEPT !.ret = reader.nDecompressionError]
    /\ pc' = "readerReturned"
    /\ UNCHANGED <<blockVars, expandVars>>
    /\ Keep({"reader"})

DecompressInmemBlock ==
    /\ pc = "reading"
    /\ reader.kind = "inmem"
    /\ \E nReach \in Reaches(stream, reader.nNumBlocks + 1) :
           reader' = InmemReaderTurn(reader, stream, nReach)
    /\ pc' = IF reader'.ret = Running THEN "reading" ELSE "readerReturned"
    /\ UNCHANGED <<blockVars, expandVars>>
    /\ Keep({"reader"})

NextReader ==
    \/ NextStream
    \/ DecompressStart
    \/ DecompressStreamBlock
    \/ DecompressStreamEnd
    \/ DecompressInmemBlock

SpecReader == InitReader /\ [][NextReader]_vars

\* C27: every block lz4ultra_decompress_stream decodes has in front of it
\* the bytes lz4ultra_compress_stream had in front of it when compressing
\* it: as many, and the same, previous input or dictionary, with dependent
\* and with independent blocks, after a stored block too.
HistoriesAgree ==
    (pc \in {"reading", "readerReturned"} /\ reader.kind = "stream") =>
        \A k \in 1..Len(reader.blocks) :
            /\ reader.blocks[k].nPreviousBlockSize = stream.blocks[k].nPreviousBlockSize
            /\ reader.blocks[k].nPreviousBlockSize # 0
                  => reader.blocks[k].history = stream.blocks[k].history

\* C28: lz4ultra_decompress_stream returns an error status when the input
\* ends inside a block, with fewer bytes than the block's prefix declares.
TruncationIsError ==
    (pc = "readerReturned" /\ reader.kind = "stream" /\ reader.cut[1] # 0
        /\ stream.out[reader.cut[1]].what \in {"block", "stored"})
      => reader.ret # LZ4ULTRA_OK

\* C29: on every stream with dependent blocks that the compressor wrote,
\* lz4ultra_inmem_decompress_stream returns the size of the input and leaves
\* the bytes lz4ultra_decompress_stream leaves, the input's.
InmemReaderAgrees ==
    (pc = "readerReturned" /\ reader.kind = "inmem" /\ reader.cut[1] = 0
        /\ ~stream.bIndependent)
      => /\ reader.ret = stream.nInputSize
         /\ reader.bGood
====
